---- MODULE Spec2Model ----
(***************************************************************************)
(* A model of the templating engine of src/index.nomodule.js (html,        *)
(* render, Template, TemplateInstance, AttributePart, NodePart) and of the *)
(* GluonElement render scheduling built on it.                             *)
(*                                                                         *)
(* Objects live in heaps indexed by identity: dom (DOM nodes), parts       *)
(* (AttributePart / NodePart objects), insts (TemplateInstance objects),   *)
(* tmpls (Template objects).  A JavaScript value is a record tagged by k.  *)
(* A string that may contain the expression marker is kept as the sequence *)
(* of its segments between markers (what split(exprMarker) returns).       *)
(***************************************************************************)
EXTENDS Integers, Sequences, FiniteSets, TLC

VARIABLES dom, parts, insts, tmpls, templates, tinst, thens, jobs, threw,
          hist, old, mid,
          needsRender, microtasks, phase, shadowRoot, color, renderCount, task,
          registeredElements, key, override, offsetParent, registered,
          keydown,
          location, storage, events, slides, deck, fonts, did,
          routingEnabled, routeChangeCallbacks, listeners, url, calls,
          eventLog, since

\* The variables of the templating engine, and those of a GluonElement
tvars == <<dom, parts, insts, tmpls, templates, tinst, thens, jobs, threw,
           hist, old, mid>>

gvars == <<needsRender, microtasks, phase, shadowRoot, color, renderCount,
           task>>

\* The variables of the key bindings: the registry, each GluonKeybinding
\* element's key and override attributes and whether it is visible, the
\* elements in the order of their latest registration, and the last keydown
\* with the elements it clicked
kvars == <<registeredElements, key, override, offsetParent, registered,
           keydown>>

\* The variables of the slide decks, one deck per view (browser window):
\* the hash of the window's location, the 'location' entry of the shared
\* localStorage, the storage events queued for each window, the slide
\* elements of each deck, the deck's own fields, and the state of the
\* deck's font loading; did is a history variable, the last operation on
\* a deck or a slide and the number of navigations so far
dvars == <<location, storage, events, slides, deck, fonts, did>>

\* The variables of the routing module of one window: routingEnabled and
\* routeChangeCallbacks, the number of addEventListener calls made for each
\* event type, and window.location; calls, eventLog and since are history
\* variables: the callback invocations, the events dispatched, and for
\* each registration the number of events that came before it
rvars == <<routingEnabled, routeChangeCallbacks, listeners, url, calls,
           eventLog, since>>

\* The variables outside the templating engine and GluonElement.render
evars == <<kvars, dvars, rvars>>

vars == <<tvars, gvars, evars>>

----------------------------------------------------------------------------
(* Bounds of the model *)

MaxSteps == 4
MaxLen == 3
MaxThen == 2
MaxThenSteps == 5
MaxRenders == 3
MaxCalls == 2
MaxSyncs == 1
MaxTasks == 2
MaxElements == 2
MaxNavigations == 3
MaxPartCalls == 2
MaxPartSteps == 3
MaxRegistrations == 2
MaxEvents == 3
MaxSlideInput == 3
MaxStepInput == 3

----------------------------------------------------------------------------
(* JavaScript values *)

NULL == 0

Undef == [k |-> "undefined"]
Null == [k |-> "null"]
Str(s) == [k |-> "string", v |-> s]
Arr(items) == [k |-> "array", items |-> items]
Thenable(t) == [k |-> "thenable", id |-> t]
DomNode(n) == [k |-> "node", n |-> n]
Directive(ret) == [k |-> "directive", ret |-> ret]
ItemParts(ids) == [k |-> "itemParts", ids |-> ids]

IsPrimitive(value) == value.k \in {"undefined", "null", "string"}

\* ToString as string concatenation applies it (text += v)
JsString(value) ==
    CASE value.k = "string" -> value.v
      [] value.k = "undefined" -> "undefined"
      [] value.k = "null" -> "null"
      [] OTHER -> "[object Object]"

\* The conversion of new Text(value) (an optional DOMString argument:
\* undefined gives the default "")
TextData(value) ==
    IF value.k = "undefined" THEN "" ELSE JsString(value)

\* The conversion of node.textContent = value (a nullable DOMString: null
\* and undefined give "")
TextContentData(value) ==
    IF value.k \in {"undefined", "null"} THEN "" ELSE JsString(value)

----------------------------------------------------------------------------
(* The DOM: dom[n] is the node of identity n *)

IndexOf(s, x) ==
    IF \E i \in 1..Len(s) : s[i] = x
    THEN CHOOSE i \in 1..Len(s) : s[i] = x
    ELSE 0

RemoveAt(s, i) == SubSeq(s, 1, i - 1) \o SubSeq(s, i + 1, Len(s))

InsertAt(s, i, xs) == SubSeq(s, 1, i - 1) \o xs \o SubSeq(s, i, Len(s))

NewNode(kind, tag, data) ==
    [kind |-> kind, tag |-> tag, attrs |-> <<>>, kids |-> <<>>,
     parent |-> NULL, data |-> data]

\* new Text(data)
NewText(d, data) == Append(d, NewNode("text", "#text", <<data>>))

nextSibling(d, n) ==
    LET p == d[n].parent IN
    IF p = NULL THEN NULL
    ELSE LET i == IndexOf(d[p].kids, n) IN
         IF i < Len(d[p].kids) THEN d[p].kids[i + 1] ELSE NULL

previousSibling(d, n) ==
    LET p == d[n].parent IN
    IF p = NULL THEN NULL
    ELSE LET i == IndexOf(d[p].kids, n) IN
         IF i > 1 THEN d[p].kids[i - 1] ELSE NULL

lastChild(d, n) ==
    IF d[n].kids = <<>> THEN NULL ELSE d[n].kids[Len(d[n].kids)]

\* node.parentNode.removeChild(node), for a node that has a parent
removeChild(d, n) ==
    LET p == d[n].parent IN
    [d EXCEPT ![p].kids = RemoveAt(@, IndexOf(@, n)), ![n].parent = NULL]

\* parent.insertBefore(node, ref): a DocumentFragment gives its children,
\* any other node is first removed from where it is; ref = NULL appends
insertBefore(d, p, n, ref) ==
    IF d[n].kind = "frag"
    THEN LET moved == d[n].kids
             at == IF ref = NULL THEN Len(d[p].kids) + 1
                   ELSE IndexOf(d[p].kids, ref)
         IN [m \in DOMAIN d |->
               IF m = p THEN [d[m] EXCEPT !.kids = InsertAt(@, at, moved)]
               ELSE IF m = n THEN [d[m] EXCEPT !.kids = <<>>]
               ELSE IF IndexOf(moved, m) # 0 THEN [d[m] EXCEPT !.parent = p]
               ELSE d[m]]
    ELSE LET d1 == IF d[n].parent = NULL THEN d ELSE removeChild(d, n)
             at == IF ref = NULL THEN Len(d1[p].kids) + 1
                   ELSE IndexOf(d1[p].kids, ref)
         IN [d1 EXCEPT ![p].kids = InsertAt(@, at, <<n>>), ![n].parent = p]

\* The nodes after a and before b among the children of their parent
Between(d, a, b) ==
    LET p == d[a].parent IN
    IF p = NULL \/ d[b].parent # p THEN <<>>
    ELSE SubSeq(d[p].kids, IndexOf(d[p].kids, a) + 1,
                IndexOf(d[p].kids, b) - 1)

----------------------------------------------------------------------------
(* The world an operation runs in, and a thrown TypeError / Error *)

\* mid keeps the heaps as they are inside render, between lines 61 and 62
NoMid == [reached |-> FALSE, dom |-> <<>>, parts |-> <<>>]

World ==
    [dom |-> dom, parts |-> parts, insts |-> insts, tmpls |-> tmpls,
     templates |-> templates, tinst |-> tinst, thens |-> thens,
     jobs |-> jobs, err |-> FALSE, valueIndex |-> 0, mid |-> NoMid]

\* const v = ...; the rest of the block, K, reads v (v is computed once)
Let(v, K(_)) == CHOOSE r \in {K(x) : x \in {v}} : TRUE

\* A call that ended in world w followed by the rest of the block, K: a
\* throw inside the call skips the rest
Try(w, K(_)) == IF w.err THEN w ELSE K(w)

Throw(w) == [w EXCEPT !.err = TRUE]

----------------------------------------------------------------------------
(* Template literals.  The call sites of html in the modelled program, by  *)
(* the identity of their strings array.  Literals 1 and 2 are two call     *)
(* sites with equal strings.                                               *)

PageLiterals == 1..4

\* The literal of the UseThePlatform template getter
ElementLiteral == 5

\* A literal with two bound attributes on one element, a text with two
\* expressions and whitespace between its elements
LinkLiteral == ElementLiteral + 1

Literals == PageLiterals \cup {ElementLiteral, LinkLiteral}

\* The strings array of a literal
LiteralStrings(l) ==
    CASE l \in {1, 2} -> <<"<p>", "</p>">>
      [] l = 3 -> <<"", "<div class=\"", "-", "\">", "</div>">>
      [] l = 4 -> <<"\n<b id=\"", "\">x</b>\n">>
      [] l = ElementLiteral ->
           <<"\n<style>background: ", ";</style>\n<slot></slot>\n">>
      [] l = LinkLiteral ->
           <<"\n<a href=\"", "\" id=\"", "\">", " and ", "!</a>\n<i>t</i>\n">>

T(segments) ==
    [kind |-> "text", tag |-> "#text", attrs |-> <<>>, kids |-> <<>>,
     data |-> segments]

E(tag, attrs, kids) ==
    [kind |-> "elem", tag |-> tag, attrs |-> attrs, kids |-> kids,
     data |-> <<>>]

\* What the HTML parser builds for element.innerHTML = strings.join(marker):
\* the children of the template's content.  A text or an attribute value is
\* the sequence of its segments between markers; raw is the attribute name
\* that the pattern of line 124 finds in the literal's text ("" when it
\* finds none).
ParseHTML(strings) ==
    CASE strings = <<"<p>", "</p>">> ->
           <<E("p", <<>>, <<T(<<"", "">>)>>)>>
      [] strings = <<"", "<div class=\"", "-", "\">", "</div>">> ->
           <<T(<<"", "">>),
             E("div", <<[name |-> "class", raw |-> "class",
                         value |-> <<"", "-", "">>]>>,
               <<T(<<"", "">>)>>)>>
      [] strings = <<"\n<b id=\"", "\">x</b>\n">> ->
           <<T(<<"\n">>),
             E("b", <<[name |-> "id", raw |-> "id", value |-> <<"", "">>]>>,
               <<T(<<"x">>)>>),
             T(<<"\n">>)>>
      [] strings = <<"\n<style>background: ", ";</style>\n<slot></slot>\n">> ->
           <<T(<<"\n">>),
             E("style", <<>>, <<T(<<"background: ", ";">>)>>),
             T(<<"\n">>),
             E("slot", <<>>, <<>>),
             T(<<"\n">>)>>
      [] strings = <<"\n<a href=\"", "\" id=\"", "\">", " and ",
                     "!</a>\n<i>t</i>\n">> ->
           <<T(<<"\n">>),
             E("a", <<[name |-> "href", raw |-> "href", value |-> <<"", "">>],
                      [name |-> "id", raw |-> "id", value |-> <<"", "">>]>>,
               <<T(<<"", " and ", "!">>)>>),
             T(<<"\n">>),
             E("i", <<>>, <<T(<<"t">>)>>),
             T(<<"\n">>)>>

\* !nodeValue.trim() for the texts of the literals
IsBlank(data) == data \in {<<"">>, <<" ">>, <<"\n">>}

RECURSIVE BuildTree(_, _, _), BuildForest(_, _, _)

BuildTree(d, p, t) ==
    LET n == Len(d) + 1
        d1 == Append(d, [kind |-> t.kind, tag |-> t.tag, attrs |-> t.attrs,
                         kids |-> <<>>, parent |-> p, data |-> t.data])
    IN BuildForest([d1 EXCEPT ![p].kids = Append(@, n)], n, t.kids)

BuildForest(d, p, ts) ==
    IF ts = <<>> THEN d
    ELSE BuildForest(BuildTree(d, p, Head(ts)), p, Tail(ts))

\* template.innerHTML = html: a new content fragment holding the parsed nodes
SetInnerHTML(d, strings) ==
    LET root == Len(d) + 1
    IN BuildForest(Append(d, NewNode("frag", "#fragment", <<>>)), root,
                   ParseHTML(strings))

\* TreeWalker(root, elements & text).nextNode() from currentNode cur
RECURSIVE Following(_, _, _)

Following(d, root, n) ==
    IF n = root THEN NULL
    ELSE LET s == nextSibling(d, n) IN
         IF s # NULL THEN s ELSE Following(d, root, d[n].parent)

walkerNextNode(d, root, cur) ==
    IF d[cur].kids # <<>> THEN d[cur].kids[1] ELSE Following(d, root, cur)

TemplatePart(type, index, name, rawName, strings) ==
    [type |-> type, index |-> index, name |-> name, rawName |-> rawName,
     strings |-> strings]

\* The loop of lines 114-130 over the attributes of node, from position i.
\* c is the state of the constructor: dom, parts, index, partIndex, err.
RECURSIVE TemplateAttributes(_, _, _)

TemplateAttributes(c, node, i) ==
    IF c.err \/ ~(i < Len(c.dom[node].attrs)) THEN c
    ELSE LET attribute == c.dom[node].attrs[i + 1]
             attributeStrings == attribute.value
         IN IF Len(attributeStrings) > 1
            THEN IF attribute.raw = ""
                 THEN [c EXCEPT !.err = TRUE]
                 ELSE TemplateAttributes(
                        [c EXCEPT
                           !.parts = Append(@, TemplatePart("attribute",
                                        c.index, attribute.name,
                                        attribute.raw, attributeStrings)),
                           !.dom[node].attrs = RemoveAt(@, i + 1),
                           !.partIndex = @ + Len(attributeStrings) - 1],
                        node, i)
            ELSE TemplateAttributes(c, node, i + 1)

\* The loop of lines 145-148: a new literal node and a part per expression
RECURSIVE TemplateTextParts(_, _, _, _)

TemplateTextParts(c, node, strings, i) ==
    IF ~(i < Len(strings) - 1) THEN c
    ELSE LET t == Len(c.dom) + 1
             d1 == NewText(c.dom, strings[i + 1])
         IN TemplateTextParts(
              [c EXCEPT
                 !.dom = insertBefore(d1, d1[node].parent, t, node),
                 !.parts = Append(@, TemplatePart("node", c.index, "", "",
                                                  <<>>)),
                 !.index = @ + 1],
              node, strings, i + 1)

\* The walk of lines 107-155 from the walker's current node cur
RECURSIVE TemplateWalk(_, _, _)

TemplateWalk(c, root, cur) ==
    LET node == walkerNextNode(c.dom, root, cur) IN
    IF c.err \/ node = NULL THEN c
    ELSE LET c1 == [c EXCEPT !.index = @ + 1] IN
         IF c1.dom[node].kind = "elem"
         THEN TemplateWalk(TemplateAttributes(c1, node, 0), root, node)
         ELSE LET strings == c1.dom[node].data IN
              IF Len(strings) > 1
              THEN LET c2 == [c1 EXCEPT
                                !.partIndex = @ + Len(strings) - 1,
                                !.dom[node].data = <<strings[Len(strings)]>>]
                   IN TemplateWalk(TemplateTextParts(c2, node, strings, 0),
                                   root, node)
              ELSE IF IsBlank(strings)
              THEN TemplateWalk([c1 EXCEPT
                                   !.nodesToRemove = Append(@, node),
                                   !.index = @ - 1],
                                root, node)
              ELSE TemplateWalk(c1, root, node)

\* lines 157-159
RECURSIVE RemoveNodes(_, _)

RemoveNodes(d, ns) ==
    IF ns = <<>> THEN d ELSE RemoveNodes(removeChild(d, Head(ns)), Tail(ns))

\* new Template(strings): the world with the Template appended to tmpls
NewTemplate(w, strings) ==
    LET root == Len(w.dom) + 1 IN
    Let(TemplateWalk([dom |-> SetInnerHTML(w.dom, strings),
                      parts |-> <<>>, index |-> -1, partIndex |-> 0,
                      nodesToRemove |-> <<>>, err |-> FALSE],
                     root, root),
        LAMBDA c :
          IF c.err THEN Throw([w EXCEPT !.dom = c.dom])
          ELSE [w EXCEPT
                  !.dom = RemoveNodes(c.dom, c.nodesToRemove),
                  !.tmpls = Append(@, [element |-> root,
                                       parts |-> c.parts])])

TemplateResult(template, values) ==
    [k |-> "result", template |-> template, values |-> values]

\* html with a cache keyed by the content of the strings
html_ByContent(w, l, values) ==
    IF \E m \in Literals :
          w.templates[m] # NULL /\ LiteralStrings(m) = LiteralStrings(l)
    THEN LET m == CHOOSE m \in Literals :
                    w.templates[m] # NULL
                    /\ LiteralStrings(m) = LiteralStrings(l)
         IN [w |-> [w EXCEPT !.templates[l] = w.templates[m]],
             result |-> TemplateResult(w.templates[m], values)]
    ELSE Let(NewTemplate(w, LiteralStrings(l)),
             LAMBDA w1 :
               IF w1.err THEN [w |-> w1, result |-> Undef]
               ELSE LET template == Len(w1.tmpls) IN
                    [w |-> [w1 EXCEPT !.templates[l] = template],
                     result |-> TemplateResult(template, values)])

\* html(strings, ...values) at the call site of literal l: the world with
\* the cache filled, and the TemplateResult
html(w, l, values) ==
    IF w.templates[l] # NULL
    THEN [w |-> w, result |-> TemplateResult(w.templates[l], values)]
    ELSE Let(NewTemplate(w, LiteralStrings(l)),
             LAMBDA w1 :
               IF w1.err THEN [w |-> w1, result |-> Undef]
               ELSE LET template == Len(w1.tmpls) IN
                    [w |-> [w1 EXCEPT !.templates[l] = template],
                     result |-> TemplateResult(template, values)])

----------------------------------------------------------------------------
(* Parts *)

ValueAt(values, i) == IF i < Len(values) THEN values[i + 1] ELSE Undef

\* getValue that returns null as it is
getValue_KeepsNull(value) ==
    IF value.k = "directive" THEN value.ret ELSE value

\* getValue(part, value): a directive is called with the part (it is
\* modelled by the value it returns), and null becomes undefined
getValue(value) ==
    LET v == IF value.k = "directive" THEN value.ret ELSE value
    IN IF v.k = "null" THEN Undef ELSE v

AttributePart(instance, element, name, strings) ==
    [type |-> "attribute", instance |-> instance, element |-> element,
     name |-> name, strings |-> strings, size |-> Len(strings) - 1]

NodePart(instance, startNode, endNode) ==
    [type |-> "node", instance |-> instance, startNode |-> startNode,
     endNode |-> endNode, previousValue |-> Undef]

\* element.setAttribute(name, text)
setAttribute(d, element, name, text) ==
    LET attrs == d[element].attrs
        new == [name |-> name, raw |-> name, value |-> <<text>>]
    IN IF \E i \in 1..Len(attrs) : attrs[i].name = name
       THEN [d EXCEPT ![element].attrs =
               [i \in 1..Len(attrs) |->
                  IF attrs[i].name = name THEN new ELSE attrs[i]]]
       ELSE [d EXCEPT ![element].attrs = Append(@, new)]

getAttribute(d, element, name) ==
    LET attrs == d[element].attrs IN
    IF \E i \in 1..Len(attrs) : attrs[i].name = name
    THEN (attrs[CHOOSE i \in 1..Len(attrs) : attrs[i].name = name]).value[1]
    ELSE "<none>"

\* for (const t of v) text += t
RECURSIVE JoinItems(_)

JoinItems(items) ==
    IF items = <<>> THEN "" ELSE JsString(Head(items)) \o JoinItems(Tail(items))

RECURSIVE AttributeText(_, _, _, _)

\* The text of lines 181-197 with the values alone, the strings left out
AttributeText_ValuesOnly(strings, values, startIndex, i) ==
    IF ~(i < Len(strings)) THEN ""
    ELSE (IF i < Len(strings) - 1
          THEN LET v == getValue(ValueAt(values, startIndex + i)) IN
               IF v.k = "array" THEN JoinItems(v.items) ELSE JsString(v)
          ELSE "") \o
         AttributeText(strings, values, startIndex, i + 1)

\* The text of lines 181-197, from position i of the part's strings on

AttributeText(strings, values, startIndex, i) ==
    IF ~(i < Len(strings)) THEN ""
    ELSE strings[i + 1] \o
         (IF i < Len(strings) - 1
          THEN LET v == getValue(ValueAt(values, startIndex + i)) IN
               IF v.k = "array" THEN JoinItems(v.items) ELSE JsString(v)
          ELSE "") \o
         AttributeText(strings, values, startIndex, i + 1)

\* AttributePart.setValue(values, startIndex)
AttributePart_setValue(w, p, values, startIndex) ==
    LET part == w.parts[p] IN
    [w EXCEPT !.dom = setAttribute(@, part.element, part.name,
                        AttributeText(part.strings, values, startIndex, 0))]

\* NodePart.clear(startNode)
RECURSIVE clear(_, _, _)

clear(w, p, startNode) ==
    IF startNode = NULL THEN Throw(w)
    ELSE LET node == nextSibling(w.dom, startNode) IN
         IF node = w.parts[p].endNode THEN w
         ELSE IF node = NULL THEN Throw(w)
         ELSE clear([w EXCEPT !.dom = removeChild(@, node)], p, startNode)

\* NodePart._insert(node)
_insert(w, p, node) ==
    LET endNode == w.parts[p].endNode IN
    IF w.dom[endNode].parent = NULL THEN Throw(w)
    ELSE [w EXCEPT !.dom = insertBefore(@, w.dom[endNode].parent, node,
                                        endNode)]

\* _setNode that inserts the node without clearing the gap first
_setNode_NoClear(w, p, node) ==
    Try(_insert(w, p, node), LAMBDA w2 :
        [w2 EXCEPT !.parts[p].previousValue = DomNode(node)])

\* NodePart._setNode(value)
_setNode(w, p, node) ==
    Try(clear(w, p, w.parts[p].startNode), LAMBDA w1 :
    Try(_insert(w1, p, node), LAMBDA w2 :
        [w2 EXCEPT !.parts[p].previousValue = DomNode(node)]))

\* _setText that always makes a new text node
_setText_AlwaysNew(w, p, value) ==
    Try(_setNode([w EXCEPT !.dom = NewText(@, TextData(value))],
                 p, Len(w.dom) + 1),
        LAMBDA w1 : [w1 EXCEPT !.parts[p].previousValue = value])

\* NodePart._setText(value)
_setText(w, p, value) ==
    LET part == w.parts[p]
        node == nextSibling(w.dom, part.startNode)
    IN IF node = previousSibling(w.dom, part.endNode)
       THEN IF node = NULL THEN Throw(w)
            ELSE IF w.dom[node].kind = "text"
            THEN [w EXCEPT !.dom[node].data = <<TextContentData(value)>>,
                           !.parts[p].previousValue = value]
            ELSE Try(_setNode([w EXCEPT !.dom = NewText(@,
                                  TextData(value))], p, Len(w.dom) + 1),
                     LAMBDA w1 :
                       [w1 EXCEPT !.parts[p].previousValue = value])
       ELSE Try(_setNode([w EXCEPT !.dom = NewText(@, TextData(value))],
                         p, Len(w.dom) + 1),
                LAMBDA w1 : [w1 EXCEPT !.parts[p].previousValue = value])

RECURSIVE setValue(_, _, _)

\* The callback of lines 322-326 without its test
PromiseCallback_NoGuard(w, p, value, v) == setValue(w, p, v)

\* The callback that _setPromise passes to value.then, called with v
PromiseCallback(w, p, value, v) ==
    IF w.parts[p].previousValue = value THEN setValue(w, p, v) ELSE w

\* The thenable object whose then calls the callback it is given before it
\* returns; the other thenables are promises, whose then never does
SyncThenable == MaxThen + 1

\* NodePart._setPromise(value): value.then(callback) first, the assignment
\* of _previousValue after it. then() of a pending thenable keeps the
\* callback, then() of a settled promise queues its call
_setPromise(w, p, value) ==
    LET t == value.id IN
    Try(IF w.thens[t].state = "pending"
        THEN [w EXCEPT !.thens[t].cbs = Append(@, p)]
        ELSE IF t = SyncThenable
        THEN PromiseCallback(w, p, value, w.thens[t].value)
        ELSE [w EXCEPT !.jobs = Append(@, [part |-> p, thenable |-> t,
                                           v |-> w.thens[t].value])],
        LAMBDA w1 : [w1 EXCEPT !.parts[p].previousValue = value])

----------------------------------------------------------------------------
(* Template instances *)

PartCallbacks == {"default", "custom"}

\* defaultPartCallback that takes every descriptor that is no attribute for
\* a node descriptor
defaultPartCallback_NodeByDefault(w, instance, templatePart, node) ==
    IF templatePart.type = "attribute"
    THEN [w EXCEPT !.parts = Append(@, AttributePart(instance, node,
                                 templatePart.name, templatePart.strings))]
    ELSE [w EXCEPT !.parts = Append(@, NodePart(instance, node,
                                 nextSibling(w.dom, node)))]

\* defaultPartCallback(instance, templatePart, node): the world with the
\* new part appended to parts
defaultPartCallback(w, instance, templatePart, node) ==
    IF templatePart.type = "attribute"
    THEN [w EXCEPT !.parts = Append(@, AttributePart(instance, node,
                                 templatePart.name, templatePart.strings))]
    ELSE IF templatePart.type = "node"
    THEN [w EXCEPT !.parts = Append(@, NodePart(instance, node,
                                 nextSibling(w.dom, node)))]
    ELSE Throw(w)

\* A call of the part callback cb; "custom" is a callback of the caller that
\* builds the same parts as the default one, "nodesOnly" one that throws
\* for an attribute descriptor and calls the default one otherwise
CallPartCallback(w, cb, instance, templatePart, node) ==
    IF cb = "nodesOnly" /\ templatePart.type = "attribute" THEN Throw(w)
    ELSE defaultPartCallback(w, instance, templatePart, node)

\* new TemplateInstance(template, partCallback)
TemplateInstance(template, partCallback) ==
    [template |-> template, partCallback |-> partCallback, parts |-> <<>>]

RECURSIVE CloneTree(_, _, _), CloneForest(_, _, _)

CloneTree(d, p, src) ==
    LET n == Len(d) + 1
        d1 == Append(d, [d[src] EXCEPT !.kids = <<>>, !.parent = p])
    IN CloneForest([d1 EXCEPT ![p].kids = Append(@, n)], n, d[src].kids)

CloneForest(d, p, srcs) ==
    IF srcs = <<>> THEN d
    ELSE CloneForest(CloneTree(d, p, Head(srcs)), p, Tail(srcs))

\* document.importNode(src, true)
importNode(d, src) ==
    LET root == Len(d) + 1
    IN CloneForest(Append(d, [d[src] EXCEPT !.kids = <<>>, !.parent = NULL]),
                   root, d[src].kids)

\* The loop of lines 377-386
RECURSIVE CloneWalk(_, _, _, _, _, _)

CloneWalk(w, i, fragment, node, index, partIndex) ==
    LET tparts == w.tmpls[w.insts[i].template].parts IN
    IF w.err \/ node = NULL \/ ~(partIndex < Len(tparts)) THEN w
    ELSE IF index = tparts[partIndex + 1].index
    THEN Try(CallPartCallback(w, w.insts[i].partCallback, i,
                              tparts[partIndex + 1], node),
             LAMBDA w1 :
               CloneWalk([w1 EXCEPT !.insts[i].parts =
                                       Append(@, Len(w1.parts))],
                         i, fragment, node, index, partIndex + 1))
    ELSE CloneWalk(w, i, fragment, walkerNextNode(w.dom, fragment, node),
                   index + 1, partIndex)

\* _clone whose walk counts the first node of the fragment as node 1
_clone_CountsFromOne(w, i) ==
    LET fragment == Len(w.dom) + 1 IN
    Let([w EXCEPT !.dom = importNode(@,
                            w.tmpls[w.insts[i].template].element)],
        LAMBDA w1 :
          IF Len(w.tmpls[w.insts[i].template].parts) > 0
          THEN CloneWalk(w1, i, fragment,
                         walkerNextNode(w1.dom, fragment, fragment), 1, 0)
          ELSE w1)

\* TemplateInstance._clone(): the fragment is the node Len(w.dom) + 1
_clone(w, i) ==
    LET fragment == Len(w.dom) + 1 IN
    Let([w EXCEPT !.dom = importNode(@,
                            w.tmpls[w.insts[i].template].element)],
        LAMBDA w1 :
          IF Len(w.tmpls[w.insts[i].template].parts) > 0
          THEN CloneWalk(w1, i, fragment,
                         walkerNextNode(w1.dom, fragment, fragment), 0, 0)
          ELSE w1)

RECURSIVE _setTemplateResult(_, _, _),
          _setIterable(_, _, _), IterableItems(_, _, _, _),
          update(_, _, _), UpdateParts(_, _, _, _, _)

\* NodePart.setValue(value)
\* setValue without the test against the previous value
setValue_AlwaysWrites(w, p, raw) ==
    LET value == getValue(raw) IN
    IF IsPrimitive(value) THEN _setText(w, p, value)
    ELSE IF value.k = "result" THEN _setTemplateResult(w, p, value)
    ELSE IF value.k = "array" THEN _setIterable(w, p, value)
    ELSE IF value.k = "node" THEN _setNode(w, p, value.n)
    ELSE IF value.k = "thenable" THEN _setPromise(w, p, value)
    ELSE _setText(w, p, value)

setValue(w, p, raw) ==
    LET value == getValue(raw) IN
    IF IsPrimitive(value)
    THEN IF value = w.parts[p].previousValue THEN w
         ELSE _setText(w, p, value)
    ELSE IF value.k = "result" THEN _setTemplateResult(w, p, value)
    ELSE IF value.k = "array" THEN _setIterable(w, p, value)
    ELSE IF value.k = "node" THEN _setNode(w, p, value.n)
    ELSE IF value.k = "thenable" THEN _setPromise(w, p, value)
    ELSE _setText(w, p, value)

\* _setTemplateResult that never reuses the previous instance
_setTemplateResult_NeverReuses(w, p, value) ==
    Let(Len(w.insts) + 1, LAMBDA i :
    Try(_clone([w EXCEPT !.insts = Append(@,
                  TemplateInstance(value.template,
                     w.insts[w.parts[p].instance].partCallback))], i),
        LAMBDA w1 :
    Try(_setNode(w1, p, Len(w.dom) + 1), LAMBDA w2 :
        update([w2 EXCEPT !.parts[p].previousValue =
                      [k |-> "instance", id |-> i]],
               i, value.values))))

\* NodePart._setTemplateResult(value)
_setTemplateResult(w, p, value) ==
    LET prev == w.parts[p].previousValue IN
    IF prev.k = "instance" /\ w.insts[prev.id].template = value.template
    THEN update(w, prev.id, value.values)
    ELSE LET i == Len(w.insts) + 1
             fragment == Len(w.dom) + 1
         IN Try(_clone([w EXCEPT !.insts = Append(@,
                          TemplateInstance(value.template,
                             w.insts[w.parts[p].instance].partCallback))],
                       i),
                LAMBDA w1 :
            Try(_setNode(w1, p, fragment), LAMBDA w2 :
                update([w2 EXCEPT !.parts[p].previousValue =
                              [k |-> "instance", id |-> i]],
                       i, value.values)))

\* The loop of lines 290-310 over the items from position partIndex on
IterableItems(w, p, items, partIndex) ==
    IF w.err \/ ~(partIndex < Len(items)) THEN w
    ELSE LET itemParts == w.parts[p].previousValue.ids IN
         IF partIndex < Len(itemParts)
         THEN IterableItems(setValue(w, itemParts[partIndex + 1],
                                     items[partIndex + 1]),
                            p, items, partIndex + 1)
         ELSE LET itemPart == Len(w.parts) + 1 IN
              IF partIndex > 0
              THEN LET itemStart == Len(w.dom) + 1
                       previousPart == itemParts[partIndex]
                   IN Try(_insert([w EXCEPT
                              !.dom = NewText(@, ""),
                              !.parts[previousPart].endNode = itemStart],
                            p, itemStart),
                          LAMBDA w1 :
                            IterableItems(
                              setValue([w1 EXCEPT
                                  !.parts = Append(@, NodePart(
                                      w.parts[p].instance, itemStart,
                                      w.parts[p].endNode)),
                                  !.parts[p].previousValue.ids =
                                      Append(@, itemPart)],
                                itemPart, items[partIndex + 1]),
                              p, items, partIndex + 1))
              ELSE IterableItems(
                     setValue([w EXCEPT
                         !.parts = Append(@, NodePart(w.parts[p].instance,
                                     w.parts[p].startNode,
                                     w.parts[p].endNode)),
                         !.parts[p].previousValue.ids = Append(@, itemPart)],
                       itemPart, items[partIndex + 1]),
                     p, items, partIndex + 1)

\* Lines 282-285 without the test: every render starts a new array
IterableStart_AlwaysResets(w, p) ==
    Try(clear(w, p, w.parts[p].startNode), LAMBDA c :
        [c EXCEPT !.parts[p].previousValue = ItemParts(<<>>)])

\* Lines 282-285: a previous value that is no array is cleared away
IterableStart(w, p) ==
    IF w.parts[p].previousValue.k # "itemParts"
    THEN Try(clear(w, p, w.parts[p].startNode), LAMBDA c :
             [c EXCEPT !.parts[p].previousValue = ItemParts(<<>>)])
    ELSE w

\* Lines 311-319, with a mistake: the previous value is kept after an empty
\* iterable
IterableEnd_KeepsArray(w, p, partIndex) ==
    IF partIndex = 0
    THEN clear(w, p, w.parts[p].startNode)
    ELSE LET itemParts == w.parts[p].previousValue.ids IN
         IF partIndex < Len(itemParts)
         THEN LET lastPart == itemParts[partIndex] IN
              Try(clear(w, p, previousSibling(w.dom,
                                 w.parts[lastPart].endNode)),
                  LAMBDA c : [c EXCEPT !.parts[lastPart].endNode =
                                          c.parts[p].endNode])
         ELSE w

\* Lines 311-319: the leftover items of a previous render are cleared
IterableEnd(w, p, partIndex) ==
    IF partIndex = 0
    THEN Try(clear(w, p, w.parts[p].startNode), LAMBDA c :
             [c EXCEPT !.parts[p].previousValue = Undef])
    ELSE LET itemParts == w.parts[p].previousValue.ids IN
         IF partIndex < Len(itemParts)
         THEN LET lastPart == itemParts[partIndex] IN
              Try(clear(w, p, previousSibling(w.dom,
                                 w.parts[lastPart].endNode)),
                  LAMBDA c : [c EXCEPT !.parts[lastPart].endNode =
                                          c.parts[p].endNode])
         ELSE w

\* NodePart._setIterable(value)
_setIterable(w, p, value) ==
    Try(IterableStart(w, p), LAMBDA w1 :
    Try(IterableItems(w1, p, value.items, 0), LAMBDA w2 :
        IterableEnd(w2, p, Len(value.items))))

\* The loop of lines 357-366 giving every part one value
UpdateParts_OneValueEach(w, i, values, n, valueIndex) ==
    IF w.err THEN w
    ELSE IF ~(n < Len(w.insts[i].parts))
    THEN [w EXCEPT !.valueIndex = valueIndex]
    ELSE LET p == w.insts[i].parts[n + 1] IN
         IF w.parts[p].type = "node"
         THEN UpdateParts(setValue(w, p, ValueAt(values, valueIndex)),
                          i, values, n + 1, valueIndex + 1)
         ELSE UpdateParts(AttributePart_setValue(w, p, values, valueIndex),
                          i, values, n + 1, valueIndex + 1)

\* The loop of lines 357-366 over the instance's parts from position n on
UpdateParts(w, i, values, n, valueIndex) ==
    IF w.err THEN w
    ELSE IF ~(n < Len(w.insts[i].parts))
    THEN [w EXCEPT !.valueIndex = valueIndex]
    ELSE LET p == w.insts[i].parts[n + 1] IN
         IF w.parts[p].type = "node"
         THEN UpdateParts(setValue(w, p, ValueAt(values, valueIndex)),
                          i, values, n + 1, valueIndex + 1)
         ELSE UpdateParts(AttributePart_setValue(w, p, values, valueIndex),
                          i, values, n + 1, valueIndex + w.parts[p].size)

\* TemplateInstance.update(values)
update(w, i, values) == UpdateParts(w, i, values, 0, 0)

\* Lines 62-66: the container's children are removed and the fragment is
\* appended
ReplaceChildren(d, container, fragment) ==
    LET kids == d[container].kids
        d1 == [n \in DOMAIN d |->
                 IF n = container THEN [d[n] EXCEPT !.kids = <<>>]
                 ELSE IF IndexOf(kids, n) # 0
                 THEN [d[n] EXCEPT !.parent = NULL]
                 ELSE d[n]]
    IN insertBefore(d1, container, fragment, NULL)

\* Lines 57-66 of render with the fragment appended before the update
FirstRender_AttachFirst(w, result, container, partCallback) ==
    LET i == Len(w.insts) + 1
        fragment == Len(w.dom) + 1
    IN Try(_clone([w EXCEPT
                     !.insts = Append(@, TemplateInstance(result.template,
                                                          partCallback)),
                     !.tinst[container] = i], i),
           LAMBDA w1 :
       Try(update([w1 EXCEPT !.dom = ReplaceChildren(@, container,
                                                     fragment)],
                  i, result.values),
           LAMBDA w2 :
             [w2 EXCEPT !.mid = [reached |-> TRUE, dom |-> w2.dom,
                                 parts |-> w2.parts]]))

\* Lines 57-66 of render, the first render
FirstRender(w, result, container, partCallback) ==
    LET i == Len(w.insts) + 1
        fragment == Len(w.dom) + 1
    IN Try(_clone([w EXCEPT
                     !.insts = Append(@, TemplateInstance(result.template,
                                                          partCallback)),
                     !.tinst[container] = i], i),
           LAMBDA w1 :
       Try(update(w1, i, result.values), LAMBDA w2 :
           [w2 EXCEPT
              !.mid = [reached |-> TRUE, dom |-> w2.dom,
                       parts |-> w2.parts],
              !.dom = ReplaceChildren(@, container, fragment)]))

\* render without the test of lines 52-53
render_NeverUpdates(w, result, container, partCallback) ==
    FirstRender(w, result, container, partCallback)

\* render(result, container, partCallback)
render(w, result, container, partCallback) ==
    LET instance == w.tinst[container] IN
    IF instance # NULL /\ w.insts[instance].template = result.template
       /\ w.insts[instance].partCallback = partCallback
    THEN update(w, instance, result.values)
    ELSE FirstRender(w, result, container, partCallback)

----------------------------------------------------------------------------
(* Initial states *)

\* The page before any render: one container element, MaxThen pending
\* promises and the thenable object that holds its value from the start
World0 ==
    [dom |-> <<NewNode("elem", "div", <<>>)>>, parts |-> <<>>,
     insts |-> <<>>, tmpls |-> <<>>,
     templates |-> [l \in Literals |-> NULL], tinst |-> <<NULL>>,
     thens |-> [t \in 1..SyncThenable |->
                  IF t = SyncThenable
                  THEN [state |-> "settled", value |-> Str("sync"),
                        cbs |-> <<>>]
                  ELSE [state |-> "pending", value |-> Undef,
                        cbs |-> <<>>]],
     jobs |-> <<>>, err |-> FALSE, valueIndex |-> 0, mid |-> NoMid]

Container == 1

\* The page after render(html`<p>${undefined}</p>`, container): the
\* container holds one <p> with one Node Part, ThePart
WorldPart ==
    LET h == html(World0, 1, <<Undef>>)
    IN render(h.w, h.result, Container, "default")

ThePart == 1

Snapshot(w) ==
    [dom |-> w.dom, parts |-> w.parts, insts |-> w.insts,
     tinst |-> w.tinst, templates |-> w.templates]

\* The GluonKeybinding elements of the page and the keys they may bind
Elements == 1..MaxElements

Keys == {"a", "b"}

\* No keydown has been handled since the last change of the registry
NoKeydown == [key |-> "", defaultPrevented |-> FALSE, clicks |-> <<>>]

\* At load no element is registered; the elements have no attributes yet
InitKeys ==
    /\ registeredElements = [k \in {} |-> <<>>]
    /\ key = [e \in Elements |-> ""]
    /\ override = [e \in Elements |-> FALSE]
    /\ offsetParent = [e \in Elements |-> TRUE]
    /\ registered = <<>>
    /\ keydown = NoKeydown

----------------------------------------------------------------------------
(* Texts and numbers.  A text that the code takes apart is the sequence of *)
(* its characters.  A number is a natural number, Infinity or NaN.         *)

Infinity == 1000000

NaN == -1000000

DecimalDigits == <<"0", "1", "2", "3", "4", "5", "6", "7", "8", "9">>

InfinityText == <<"I", "n", "f", "i", "n", "i", "t", "y">>

IsDigit(c) == \E i \in 1..10 : DecimalDigits[i] = c

DigitValue(c) == (CHOOSE i \in 1..10 : DecimalDigits[i] = c) - 1

\* String(n), as in `${n}` and setAttribute(name, n)
RECURSIVE NumberToString(_)

NumberToString(n) ==
    IF n = Infinity THEN InfinityText
    ELSE IF n = NaN THEN <<"N", "a", "N">>
    ELSE IF n < 0 THEN <<"-">> \o NumberToString(-n)
    ELSE IF n < 10 THEN <<DecimalDigits[n + 1]>>
    ELSE NumberToString(n \div 10) \o <<DecimalDigits[(n % 10) + 1]>>

RECURSIVE DigitsValue(_, _)

DigitsValue(text, acc) ==
    IF text = <<>> THEN acc
    ELSE DigitsValue(Tail(text), acc * 10 + DigitValue(Head(text)))

\* Number(text) for the texts of the model: digits, "Infinity", the empty
\* text (0, also for null), anything else NaN
Number(text) ==
    Let(text, LAMBDA t :
        IF t = <<>> THEN 0
        ELSE IF t = InfinityText THEN Infinity
        ELSE IF \A i \in 1..Len(t) : \E c \in {t[i]} : IsDigit(c)
        THEN DigitsValue(t, 0)
        ELSE NaN)

\* x - 1, x + 1, a < b and a > b on numbers
Minus1(x) == IF x \in {Infinity, NaN} THEN x ELSE x - 1

Plus1(x) == IF x \in {Infinity, NaN} THEN x ELSE x + 1

Less(a, b) == a # NaN /\ b # NaN /\ a < b

Greater(a, b) == Less(b, a)

StartsWith(text, prefix) ==
    Len(text) >= Len(prefix) /\ SubSeq(text, 1, Len(prefix)) = prefix

Drop(text, n) == SubSeq(text, n + 1, Len(text))

\* The longest run of digits that text starts with: \d+ (empty: no match)
RECURSIVE DigitRun(_)

DigitRun(text) ==
    IF text # <<>> /\ IsDigit(Head(text))
    THEN <<Head(text)>> \o DigitRun(Tail(text))
    ELSE <<>>

SlidePrefix == <<"s", "l", "i", "d", "e", "-">>

StepPrefix == <<"/", "s", "t", "e", "p", "-">>

\* hash.match(/(?:slide-(\d+))?(?:\/step-(\d+|Infinity))?/): the groups 1
\* and 2 of the match, <<>> for undefined.  Both parts are optional, so the
\* pattern matches at position 0 of every text.
HashMatch(hash) ==
    Let(IF StartsWith(hash, SlidePrefix)
        THEN DigitRun(Drop(hash, Len(SlidePrefix)))
        ELSE <<>>, LAMBDA g1 :
    Let(IF g1 # <<>> THEN Drop(hash, Len(SlidePrefix) + Len(g1))
        ELSE hash, LAMBDA rest :
    Let(Drop(rest, Len(StepPrefix)), LAMBDA after :
        <<g1,
          IF StartsWith(rest, StepPrefix)
          THEN IF DigitRun(after) # <<>> THEN DigitRun(after)
               ELSE IF StartsWith(after, InfinityText) THEN InfinityText
               ELSE <<>>
          ELSE <<>> >>)))

\* The getter without the subtraction: the slide number of the hash
currentSlide_OneBased(hash) ==
    LET g == HashMatch(hash)[1]
    IN IF g # <<>> THEN Number(g) ELSE 1

\* SlidemDeck.currentSlide for the current hash: (match[1] || 1) - 1
currentSlide(hash) ==
    Let(HashMatch(hash)[1], LAMBDA g :
        Let(IF g # <<>> THEN Number(g) ELSE 1, LAMBDA n : Minus1(n)))

\* SlidemDeck.currentStep for the current hash: (match[2] || 1) - 1
currentStep(hash) ==
    Let(HashMatch(hash)[2], LAMBDA g :
        Let(IF g # <<>> THEN Number(g) ELSE 1, LAMBDA n : Minus1(n)))

\* `slide-${n}/step-${m}`
SlideStepHash(n, m) ==
    SlidePrefix \o NumberToString(n) \o StepPrefix \o NumberToString(m)

----------------------------------------------------------------------------
(* Slide decks *)

Views == 1..2

\* The deck's slides: slide i has SlideSteps[i] elements with the reveal
\* attribute
SlideSteps == <<0, 2, 1>>

\* An index of this.slides that is undefined
NoSlide == -1

\* A connected slide element with steps reveal elements: no step attribute
\* yet, the reveal elements transparent.  dot is the active class of the
\* child of the progress bar that the deck appended for the slide.
NewSlide(steps) ==
    [step |-> <<>>, opacity |-> [n \in 1..steps |-> 0], active |-> FALSE,
     next |-> FALSE, previous |-> FALSE, dot |-> FALSE]

\* The 'location' entry of localStorage is not set
NoEntry == [set |-> FALSE, value |-> <<>>]

\* Every deck is connected and has rendered; no route change has been
\* handled yet and the fonts are loading
InitDeck ==
    /\ location = [v \in Views |-> <<>>]
    /\ storage = NoEntry
    /\ events = [v \in Views |-> <<>>]
    /\ slides = [v \in Views |->
                   [i \in 1..Len(SlideSteps) |-> NewSlide(SlideSteps[i])]]
    /\ deck = [v \in Views |->
                 [previousSlide |-> NoSlide, nextSlide |-> NoSlide,
                  oldNextSlide |-> NoSlide, oldPreviousSlide |-> NoSlide]]
    /\ fonts = [v \in Views |-> "loading"]
    /\ did = [op |-> "connect", view |-> 0, slide |-> 0, text |-> <<>>,
              navigations |-> 0]

----------------------------------------------------------------------------
(* Routing: onRouteChange and notifyRouteChange *)

\* The functions given to onRouteChange
Callbacks == {"f", "g"}

\* The event types that onRouteChange listens to: three on window, click
\* on document.body
EventTypes == {"hashchange", "location-changed", "popstate", "click"}

\* decodeURIComponent for the texts of the model: %20 is a space
RECURSIVE decodeURIComponent(_)

decodeURIComponent(text) ==
    IF text = <<>> THEN <<>>
    ELSE IF Len(text) >= 3 /\ SubSeq(text, 1, 3) = <<"%", "2", "0">>
    THEN <<" ">> \o decodeURIComponent(SubSeq(text, 4, Len(text)))
    ELSE <<Head(text)>> \o decodeURIComponent(Tail(text))

\* window.location: pathname, search (with its ?) and hash (with its #)
Location(pathname, search, hash) ==
    [pathname |-> pathname, search |-> search, hash |-> hash]

Locations ==
    {Location(<<"/">>, <<>>, <<>>),
     Location(<<"/">>, <<>>, <<"#", "s", "-", "2">>),
     Location(<<"/", "a", "%", "2", "0", "b">>, <<"?", "p">>, <<"#", "x">>)}

currentPath(u) == decodeURIComponent(u.pathname)

currentQuery(u) == SubSeq(u.search, 2, Len(u.search))

currentHash(u) == decodeURIComponent(SubSeq(u.hash, 2, Len(u.hash)))

\* The routing module as one record
Routing ==
    [routingEnabled |-> routingEnabled,
     routeChangeCallbacks |-> routeChangeCallbacks,
     listeners |-> listeners]

\* onRouteChange that adds its listeners on every call
onRouteChange_AlwaysInstalls(R, a) ==
    [R EXCEPT !.listeners = [t \in EventTypes |-> @[t] + 1],
              !.routingEnabled = TRUE,
              !.routeChangeCallbacks = Append(@, a)]

\* onRouteChange(a)
onRouteChange(R, a) ==
    IF R.routingEnabled
    THEN [R EXCEPT !.routeChangeCallbacks = Append(@, a)]
    ELSE [R EXCEPT !.listeners = [t \in EventTypes |-> @[t] + 1],
                   !.routingEnabled = TRUE,
                   !.routeChangeCallbacks = Append(@, a)]

\* routeChangeCallbacks.forEach(a => a(currentPath(), currentQuery(),
\* currentHash())) for event number n: the invocations in their order
\* (a callback is taken to return)
forEachCallback(R, u, n) ==
    [i \in 1..Len(R.routeChangeCallbacks) |->
       [registration |-> i, callback |-> R.routeChangeCallbacks[i],
        event |-> n, path |-> currentPath(u), query |-> currentQuery(u),
        hash |-> currentHash(u)]]

\* The invocations caused by an event of the type on its target: the
\* target calls notifyRouteChange once if it was added, however often
\* (addEventListener ignores a listener that is already in the list)
dispatchEvent(R, type, u, n) ==
    IF R.listeners[type] >= 1 THEN forEachCallback(R, u, n) ELSE <<>>

InitRouting ==
    /\ routingEnabled = FALSE
    /\ routeChangeCallbacks = <<>>
    /\ listeners = [t \in EventTypes |-> 0]
    /\ url = Location(<<"/">>, <<>>, <<>>)
    /\ calls = <<>>
    /\ eventLog = <<>>
    /\ since = <<>>

Start(w) ==
    /\ InitKeys
    /\ InitDeck
    /\ InitRouting
    /\ dom = w.dom
    /\ parts = w.parts
    /\ insts = w.insts
    /\ tmpls = w.tmpls
    /\ templates = w.templates
    /\ tinst = w.tinst
    /\ thens = w.thens
    /\ jobs = w.jobs
    /\ threw = FALSE
    /\ hist = <<>>
    /\ old = Snapshot(w)
    /\ mid = NoMid
    /\ needsRender = FALSE
    /\ microtasks = 0
    /\ phase = "task"
    /\ shadowRoot = NULL
    /\ color = "#2e9be6"
    /\ renderCount = 0
    /\ task = [n |-> 1, calls |-> 0, syncs |-> 0, start |-> 0,
               last |-> "none"]

\* The state after an operation that ended in world w; e describes the
\* operation.  hist and old are history variables: the operations so far
\* and the heaps before the last one.
Commit(w, e) ==
    /\ dom' = w.dom
    /\ parts' = w.parts
    /\ insts' = w.insts
    /\ tmpls' = w.tmpls
    /\ templates' = w.templates
    /\ tinst' = w.tinst
    /\ thens' = w.thens
    /\ jobs' = w.jobs
    /\ threw' = w.err
    /\ hist' = Append(hist, [op |-> e.op, value |-> e.value,
                              threw |-> w.err, valueIndex |-> w.valueIndex])
    /\ old' = Snapshot(World)
    /\ mid' = w.mid

----------------------------------------------------------------------------
(* Iterables set on one Node Part *)

Digits == <<"1", "2", "3", "4", "5", "6">>

\* An array of n strings: a1 a2 .. an, or b1 b2 .. bn
ArrayOf(f, n) == Arr([i \in 1..n |-> Str(f \o Digits[i])])

Arrays == {ArrayOf(f, n) : f \in {"a", "b"}, n \in 0..MaxLen}

IterValues == Arrays \cup {Str("s")}

PartSetValue(value) ==
    /\ Len(hist) < MaxSteps
    /\ Commit(setValue(World, ThePart, value),
              [op |-> "setValue", value |-> value])
    /\ UNCHANGED <<gvars, evars>>

NextIter == \E value \in IterValues : PartSetValue(value)

SpecIter == Start(WorldPart) /\ [][NextIter]_vars

\* The nodes between the markers of part p
Gap(d, ps, p) == Between(d, ps[p].startNode, ps[p].endNode)

\* The texts shown between the markers of part p: the data of its nodes,
\* the empty separator markers left out
Shown(d, ps, p) ==
    LET gap == Gap(d, ps, p)
        data == [i \in 1..Len(gap) |-> d[gap[i]].data[1]]
    IN SelectSeq(data, LAMBDA x : x # "")

ItemTexts(value) == [i \in 1..Len(value.items) |-> value.items[i].v]

Last == hist[Len(hist)]

OnlyArrays == \A i \in 1..Len(hist) : hist[i].value.k = "array"

\* C2: after any sequence of setValue calls with arrays of primitives on one
\* Node Part no call has thrown and the part shows exactly the items of the
\* most recent array, in order.
C2_MostRecentArrayShown ==
    (hist # <<>> /\ OnlyArrays) =>
        /\ \A i \in 1..Len(hist) : ~hist[i].threw
        /\ Shown(dom, parts, ThePart) = ItemTexts(Last.value)

WasArray(i) == i \in 1..Len(hist) /\ hist[i].value.k = "array"

\* The nodes of the first m of the items shown in gap, with the separator
\* markers between them (an item that is a string is one text node)
KeptNodes(gap, m) == SubSeq(gap, 1, 2 * m - 1)

\* C6: an iterable of m items rendered after one of n items, 0 < m < n,
\* keeps the nodes of items 0..m-1 and the separators between them, and
\* takes every other node of the gap out of the DOM.
C6_ShrinkKeepsPrefix ==
    (/\ WasArray(Len(hist)) /\ WasArray(Len(hist) - 1)
     /\ ~hist[Len(hist) - 1].threw
     /\ Len(Last.value.items) > 0
     /\ Len(Last.value.items) < Len(hist[Len(hist) - 1].value.items)) =>
        LET m == Len(Last.value.items)
            before == Gap(old.dom, old.parts, ThePart)
        IN /\ ~threw
           /\ Len(before) >= 2 * m - 1
           /\ Gap(dom, parts, ThePart) = KeptNodes(before, m)
           /\ \A i \in 2 * m .. Len(before) : dom[before[i]].parent = NULL

\* C7: an empty iterable rendered into a Node Part that held items leaves
\* nothing between the markers and no previous value, and a non-empty
\* iterable rendered next is shown by child parts that this render created.
C7_EmptyIterableResets ==
    /\ (/\ WasArray(Len(hist)) /\ Last.value.items = <<>>
        /\ old.parts[ThePart].previousValue.k = "itemParts") =>
           /\ ~threw
           /\ Gap(dom, parts, ThePart) = <<>>
           /\ parts[ThePart].previousValue = Undef
    /\ (/\ WasArray(Len(hist)) /\ Last.value.items # <<>>
        /\ WasArray(Len(hist) - 1) /\ hist[Len(hist) - 1].value.items = <<>>
        /\ WasArray(Len(hist) - 2)
        /\ hist[Len(hist) - 2].value.items # <<>>) =>
           /\ ~threw
           /\ parts[ThePart].previousValue.k = "itemParts"
           /\ Len(parts[ThePart].previousValue.ids) = Len(Last.value.items)
           /\ \A i \in 1..Len(Last.value.items) :
                parts[ThePart].previousValue.ids[i] > Len(old.parts)
           /\ Shown(dom, parts, ThePart) = ItemTexts(Last.value)

\* An empty iterable was rendered over items, and a non-empty one after it
C7_Witness ==
    /\ Len(hist) >= 3
    /\ WasArray(Len(hist)) /\ Last.value.items # <<>>
    /\ hist[Len(hist) - 1].value = Arr(<<>>)
    /\ WasArray(Len(hist) - 2) /\ hist[Len(hist) - 2].value.items # <<>>
    /\ ~hist[Len(hist) - 2].threw
    /\ parts[ThePart].previousValue.k = "itemParts"

----------------------------------------------------------------------------
(* Thenables set on one Node Part *)

\* The value that thenable t resolves with
Resolution(t) == IF t = SyncThenable THEN Str("sync") ELSE Str("r" \o Digits[t])

ThenValues ==
    {Thenable(t) : t \in 1..MaxThen} \cup {Str("s"), ArrayOf("a", 2)}

ThenSetValue(value) ==
    /\ Len(hist) < MaxThenSteps
    /\ Commit(setValue(World, ThePart, value),
              [op |-> "setValue", value |-> value])
    /\ UNCHANGED <<gvars, evars>>

\* Thenable t resolves: a call of each callback given to then is queued
Settle(t) ==
    /\ Len(hist) < MaxThenSteps
    /\ thens[t].state = "pending"
    /\ Commit([World EXCEPT
                 !.thens[t] = [state |-> "settled", value |-> Resolution(t),
                               cbs |-> <<>>],
                 !.jobs = @ \o [i \in 1..Len(thens[t].cbs) |->
                                  [part |-> thens[t].cbs[i], thenable |-> t,
                                   v |-> Resolution(t)]]],
              [op |-> "settle", value |-> Thenable(t)])
    /\ UNCHANGED <<gvars, evars>>

\* The first queued callback runs
RunJob ==
    /\ Len(hist) < MaxThenSteps
    /\ jobs # <<>>
    /\ LET job == Head(jobs) IN
       Commit(PromiseCallback([World EXCEPT !.jobs = Tail(@)], job.part,
                              Thenable(job.thenable), job.v),
              [op |-> "job", value |-> Thenable(job.thenable)])
    /\ UNCHANGED <<gvars, evars>>

NextThen ==
    \/ \E value \in ThenValues : ThenSetValue(value)
    \/ \E t \in 1..MaxThen : Settle(t)
    \/ RunJob

SpecThen == Start(WorldPart) /\ [][NextThen]_vars

SetOps == {i \in 1..Len(hist) : hist[i].op = "setValue"}

\* The value of the most recent setValue call of the program
LastSet == hist[CHOOSE i \in SetOps : \A j \in SetOps : j <= i].value

\* C3: the resolution of a thenable that is no longer the most recently set
\* value changes neither the DOM nor any part, so that the part holds the
\* most recently set value, or what the most recently set thenable resolved
\* with.
C3_StaleResolutionIgnored ==
    /\ (hist # <<>> /\ Last.op = "job" /\ SetOps # {}
        /\ LastSet # Last.value) =>
           /\ ~threw
           /\ dom = old.dom
           /\ parts = old.parts
    /\ (SetOps # {} /\ LastSet.k = "string") =>
           /\ parts[ThePart].previousValue = LastSet
           /\ Shown(dom, parts, ThePart) = <<LastSet.v>>
    /\ (SetOps # {} /\ LastSet.k = "thenable") =>
           parts[ThePart].previousValue \in {LastSet, Resolution(LastSet.id)}

\* A thenable was set, another value after it, and then the thenable's
\* callback ran
C3_Witness ==
    /\ hist # <<>> /\ Last.op = "job" /\ SetOps # {}
    /\ LastSet # Last.value
    /\ \E i \in SetOps : hist[i].value = Last.value

----------------------------------------------------------------------------
(* Renders into one container *)

\* The values a call site may pass, one per expression of its literal
LiteralValues(l) ==
    CASE l = 1 -> {<<Str("x")>>, <<Str("y")>>, <<ArrayOf("a", 2)>>,
                   <<ArrayOf("a", 1)>>, <<ArrayOf("b", 2)>>}
      [] l = 2 -> {<<Str("x")>>}
      [] l = 3 -> {<<Str("w"), a, b, Str("z")>> :
                     a \in {Str("x"), Str("p")}, b \in {Str("y"), Undef}}
      [] l = 4 -> {<<Str("i")>>}

\* render(html`...`, container, partCallback) at the call site of literal l
Render(l, values, partCallback) ==
    /\ Len(hist) < MaxRenders
    /\ LET h == html(World, l, values)
           w == IF h.w.err THEN h.w
                ELSE render(h.w, h.result, Container, partCallback)
       IN Commit(w, [op |-> "render",
                     value |-> [l |-> l, values |-> values,
                                partCallback |-> partCallback,
                                template |-> h.result.template]])
    /\ UNCHANGED <<gvars, evars>>

\* The part callback that a call site passes to render: the call sites of
\* literal 1 pass the default callback or their own, the others the default
SiteCallbacks(l) == IF l = 1 THEN PartCallbacks ELSE {"default"}

NextRender ==
    \E l \in PageLiterals : \E values \in LiteralValues(l) :
        \E partCallback \in SiteCallbacks(l) :
            Render(l, values, partCallback)

SpecRender == Start(World0) /\ [][NextRender]_vars

\* The instance that the container recorded before the last operation
OldInstance == old.tinst[Container]

\* The last render found the instance of its template and part callback
RepeatRender ==
    /\ hist # <<>>
    /\ OldInstance # NULL
    /\ old.insts[OldInstance].template = Last.value.template
    /\ old.insts[OldInstance].partCallback = Last.value.partCallback

\* Node n lies between the markers of a Node Part of instance i
InGap(d, ps, is, i, n) ==
    \E k \in 1..Len(is[i].parts) :
        /\ ps[is[i].parts[k]].type = "node"
        /\ IndexOf(Gap(d, ps, is[i].parts[k]), n) # 0

\* Attribute name of element n belongs to an Attribute Part of instance i
IsPartAttribute(ps, is, i, n, name) ==
    \E k \in 1..Len(is[i].parts) :
        /\ ps[is[i].parts[k]].type = "attribute"
        /\ ps[is[i].parts[k]].element = n
        /\ ps[is[i].parts[k]].name = name

\* Node n of d without what the parts of instance i control: the children
\* in a gap and the attributes of the Attribute Parts
Frame(d, ps, is, i, n) ==
    [d[n] EXCEPT
       !.kids = SelectSeq(@, LAMBDA c : ~InGap(d, ps, is, i, c)),
       !.attrs = SelectSeq(@, LAMBDA a :
                                ~IsPartAttribute(ps, is, i, n, a.name))]

\* C1: a render that finds the container's instance built from the same
\* template with the same part callback keeps that instance and the
\* container's children, and changes the DOM only inside Part boundaries.
C1_RepeatRenderUpdatesInPlace ==
    RepeatRender =>
        /\ tinst = old.tinst
        /\ Len(insts) = Len(old.insts)
        /\ insts[OldInstance] = old.insts[OldInstance]
        /\ dom[Container].kids = old.dom[Container].kids
        /\ \A n \in 1..Len(old.dom) :
             \/ InGap(old.dom, old.parts, old.insts, OldInstance, n)
             \/ Frame(dom, parts, insts, OldInstance, n)
                  = Frame(old.dom, old.parts, old.insts, OldInstance, n)
        /\ \A n \in (Len(old.dom) + 1)..Len(dom) :
             \/ dom[n].parent = NULL
             \/ InGap(dom, parts, insts, OldInstance, n)

\* A repeat render wrote other values than the render before it
C1_Witness ==
    /\ RepeatRender
    /\ Len(hist) >= 2
    /\ hist[Len(hist) - 1].value.values # Last.value.values
    /\ dom # old.dom

\* The last render did not find an instance to update
FirstRenderCase ==
    /\ hist # <<>>
    /\ \/ OldInstance = NULL
       \/ old.insts[OldInstance].template # Last.value.template
       \/ old.insts[OldInstance].partCallback # Last.value.partCallback

\* C8: a render that finds no instance of its template and part callback
\* records a new instance, applies the values while the new fragment is
\* still detached and the old children still attached, and then replaces the
\* container's children by the fragment's nodes.
C8_FirstRenderReplacesChildren ==
    FirstRenderCase =>
        /\ ~threw
        /\ Len(insts) = Len(old.insts) + 1
        /\ tinst[Container] = Len(insts)
        /\ insts[Len(insts)].template = Last.value.template
        /\ insts[Len(insts)].partCallback = Last.value.partCallback
        /\ mid.reached
        /\ mid.dom[Container].kids = old.dom[Container].kids
        /\ mid.parts = parts
        /\ \A n \in 1..Len(dom) :
             /\ mid.dom[n].data = dom[n].data
             /\ mid.dom[n].attrs = dom[n].attrs
        /\ \E f \in (Len(old.dom) + 1)..Len(dom) :
             /\ dom[f].kind = "frag"
             /\ mid.dom[f].kids # <<>>
             /\ mid.dom[f].kids = dom[Container].kids
             /\ dom[f].kids = <<>>
        /\ \A i \in 1..Len(old.dom[Container].kids) :
             dom[old.dom[Container].kids[i]].parent = NULL
        /\ \A i \in 1..Len(dom[Container].kids) :
             /\ dom[Container].kids[i] > Len(old.dom)
             /\ dom[dom[Container].kids[i]].parent = Container

\* A render replaced the instance and the children of an earlier render
C8_Witness ==
    /\ FirstRenderCase
    /\ OldInstance # NULL
    /\ old.dom[Container].kids # <<>>
    /\ tinst[Container] # OldInstance

\* The expression slots of part descriptor tp
Slots(tp) == IF tp.type = "node" THEN 1 ELSE Len(tp.strings) - 1

RECURSIVE SlotsBefore(_, _)

SlotsBefore(tps, k) ==
    IF k = 1 THEN 0 ELSE SlotsBefore(tps, k - 1) + Slots(tps[k - 1])

\* strings[0] + v0 + strings[1] + ... + strings[n] for the strings vs
RECURSIVE Interleave(_, _)

Interleave(strings, vs) ==
    IF vs = <<>> THEN strings[1]
    ELSE strings[1] \o JsString(vs[1]) \o Interleave(Tail(strings), Tail(vs))

LastRendered ==
    /\ hist # <<>>
    /\ Last.op = "render"
    /\ ~threw

\* C9: update gives part k of the instance the values that start at the sum
\* of the slots of the parts before it, one to a Node Part and
\* strings.length - 1 to an Attribute Part, and consumes as many values as
\* the literal has expressions.
C9_UpdateDistributesValues ==
    LastRendered =>
        LET i == tinst[Container]
            tps == tmpls[Last.value.template].parts
            values == Last.value.values
        IN /\ Len(insts[i].parts) = Len(tps)
           /\ Last.valueIndex = Len(LiteralStrings(Last.value.l)) - 1
           /\ \A k \in 1..Len(tps) :
                LET part == parts[insts[i].parts[k]]
                    first == SlotsBefore(tps, k) + 1
                IN /\ part.type = tps[k].type
                   /\ part.type = "node" =>
                        IF values[first].k = "array"
                        THEN part.previousValue.k = "itemParts"
                        ELSE part.previousValue = values[first]
                   /\ part.type = "attribute" =>
                        getAttribute(dom, part.element, part.name)
                          = Interleave(tps[k].strings,
                               SubSeq(values, first,
                                      first + Slots(tps[k]) - 1))

\* A template with a Node Part after an Attribute Part of two expressions
\* was rendered
C9_Witness ==
    /\ LastRendered
    /\ Last.value.l = 3
    /\ Len(insts[tinst[Container]].parts) = 3
    /\ parts[insts[tinst[Container]].parts[3]].previousValue = Str("z")

\* C4: after every update the attribute of an Attribute Part is its literal
\* strings interleaved with the part's slice of the current values, whatever
\* the values of earlier renders were.
C4_AttributeRecomputedInFull ==
    (LastRendered /\ Last.value.l \in {3, 4}) =>
        LET i == tinst[Container]
            values == Last.value.values
        IN IF Last.value.l = 3
           THEN LET part == parts[insts[i].parts[2]] IN
                getAttribute(dom, part.element, "class")
                  = JsString(values[2]) \o "-" \o JsString(values[3])
           ELSE LET part == parts[insts[i].parts[1]] IN
                getAttribute(dom, part.element, "id") = JsString(values[1])

\* attr="${a}-${b}" was rendered with x and y, and then again with p and y
C4_Witness ==
    /\ LastRendered /\ Len(hist) >= 2
    /\ RepeatRender
    /\ Last.value.l = 3
    /\ hist[Len(hist) - 1].value.values[2] = Str("x")
    /\ Last.value.values[2] = Str("p")
    /\ Last.value.values[3] = Str("y")
    /\ hist[Len(hist) - 1].value.values[3] = Str("y")
    /\ getAttribute(dom, parts[insts[tinst[Container]].parts[2]].element,
                    "class") = "p-y"

\* C5: every call of html at one call site gives the Template that its first
\* call built, which stays in the cache; two call sites have different
\* Templates, with equal part lists when their strings are equal.
C5_TemplateCachedByIdentity ==
    /\ \A i \in 1..Len(hist) :
         /\ hist[i].value.template \in 1..Len(tmpls)
         /\ templates[hist[i].value.l] = hist[i].value.template
    /\ \A l1, l2 \in Literals :
         (l1 # l2 /\ templates[l1] # NULL /\ templates[l2] # NULL) =>
            /\ templates[l1] # templates[l2]
            /\ tmpls[templates[l1]].element # tmpls[templates[l2]].element
            /\ LiteralStrings(l1) = LiteralStrings(l2) =>
                 tmpls[templates[l1]].parts = tmpls[templates[l2]].parts
    /\ Len(tmpls) = Cardinality({l \in Literals : templates[l] # NULL})

\* html was called twice at one call site and at another call site with
\* equal strings
C5_Witness ==
    /\ Len(hist) >= 3
    /\ \E i, j, k \in 1..Len(hist) :
         /\ i < j
         /\ hist[i].value.l = 1 /\ hist[j].value.l = 1
         /\ hist[k].value.l = 2
    /\ templates[1] # NULL /\ templates[2] # NULL

----------------------------------------------------------------------------
(* GluonElement.render and its callers, for one UseThePlatform element.    *)
(* A task is one run of synchronous code; the continuations of `await 0`   *)
(* run in the microtask phase that follows it.  task counts, for the       *)
(* current task, the render() calls without and with the sync flag, and    *)
(* keeps the number of renders done when the task began and which of the   *)
(* two kinds of call came last.                                            *)

Colors == {"#2e9be6", "red"}

\* The UseThePlatform template getter: html`...${this.color}...`
ElementTemplate(w, c) == html(w, ElementLiteral, <<Str(c)>>)

\* The end of GluonElement.render with the flag left set
Rerender_KeepsFlag(w, flag, root, c) ==
    IF flag
    THEN [needsRender |-> TRUE, rendered |-> TRUE,
          w |-> Let(ElementTemplate(w, c), LAMBDA h :
                    IF h.w.err THEN h.w
                    ELSE IF root = NULL THEN Throw(h.w)
                    ELSE render(h.w, h.result, root, "default"))]
    ELSE [needsRender |-> flag, rendered |-> FALSE, w |-> w]

\* The end of GluonElement.render without the test of the flag
Rerender_IgnoresFlag(w, flag, root, c) ==
    [needsRender |-> FALSE, rendered |-> TRUE,
     w |-> Let(ElementTemplate(w, c), LAMBDA h :
               IF h.w.err THEN h.w
               ELSE IF root = NULL THEN Throw(h.w)
               ELSE render(h.w, h.result, root, "default"))]

\* The end of GluonElement.render:
\*   this[o] && (this[o] = false, render(this.template, this.shadowRoot))
\* render throws a TypeError on a shadowRoot that is null
Rerender(w, flag, root, c) ==
    IF flag
    THEN [needsRender |-> FALSE, rendered |-> TRUE,
          w |-> Let(ElementTemplate(w, c), LAMBDA h :
                    IF h.w.err THEN h.w
                    ELSE IF root = NULL THEN Throw(h.w)
                    ELSE render(h.w, h.result, root, "default"))]
    ELSE [needsRender |-> flag, rendered |-> FALSE, w |-> w]

\* The state after the end of render ran with outcome r
Rerendered(r, how) ==
    /\ needsRender' = r.needsRender
    /\ IF r.rendered
       THEN /\ Commit(r.w, [op |-> how, value |-> Str(color)])
            /\ renderCount' = renderCount + 1
       ELSE UNCHANGED <<tvars, renderCount>>

\* setAttribute('color', c): attributeChangedCallback calls render(), which
\* sets the flag and waits
SetColor(c) ==
    /\ phase = "task"
    /\ task.calls < MaxCalls
    /\ color' = c
    /\ needsRender' = TRUE
    /\ microtasks' = microtasks + 1
    /\ task' = [task EXCEPT !.calls = @ + 1, !.last = "render"]
    /\ UNCHANGED <<evars, tvars, phase, shadowRoot, renderCount>>

\* render({sync: true})
RenderSync ==
    /\ phase = "task"
    /\ task.syncs < MaxSyncs
    /\ Rerendered(Rerender(World, TRUE, shadowRoot, color), "sync")
    /\ task' = [task EXCEPT !.syncs = @ + 1, !.last = "sync"]
    /\ UNCHANGED <<evars, microtasks, phase, shadowRoot, color>>

\* connectedCallback: attachShadow and render({sync: true})
Connect ==
    /\ phase = "task"
    /\ shadowRoot = NULL
    /\ shadowRoot' = Container
    /\ Rerendered(Rerender(World, TRUE, Container, color), "sync")
    /\ task' = [task EXCEPT !.syncs = @ + 1, !.last = "sync"]
    /\ UNCHANGED <<evars, microtasks, phase, color>>

\* The synchronous code of the task ends
EndTask ==
    /\ phase = "task"
    /\ phase' = "microtasks"
    /\ UNCHANGED <<evars, tvars, needsRender, microtasks, shadowRoot, color,
                   renderCount, task>>

\* A render() call resumes after its await
Resume ==
    /\ phase = "microtasks"
    /\ microtasks > 0
    /\ microtasks' = microtasks - 1
    /\ Rerendered(Rerender(World, needsRender, shadowRoot, color), "resume")
    /\ UNCHANGED <<evars, phase, shadowRoot, color, task>>

\* The microtask queue is empty and the next task begins
NextTask ==
    /\ phase = "microtasks"
    /\ microtasks = 0
    /\ task.n < MaxTasks
    /\ phase' = "task"
    /\ task' = [n |-> task.n + 1, calls |-> 0, syncs |-> 0, last |-> "none",
                start |-> renderCount]
    /\ UNCHANGED <<evars, tvars, needsRender, microtasks, shadowRoot, color,
                   renderCount>>

NextGluon ==
    \/ \E c \in Colors : SetColor(c)
    \/ RenderSync
    \/ Connect
    \/ EndTask
    \/ Resume
    \/ NextTask

SpecGluon == Start(World0) /\ [][NextGluon]_vars

\* C10: the render() calls without the sync flag of one task, with no
\* synchronous render among them, cause no render during the task and
\* exactly one in the microtask phase after it, by the first call that
\* resumes.
C10_RendersCoalesced ==
    task.syncs = 0 =>
        /\ phase = "task" => renderCount = task.start
        /\ (phase = "microtasks" /\ microtasks = task.calls) =>
               renderCount = task.start
        /\ (phase = "microtasks" /\ microtasks < task.calls) =>
               /\ renderCount = task.start + 1
               /\ ~needsRender
               /\ Last.op = "resume"
               /\ shadowRoot # NULL =>
                      ~threw /\ Shown(dom, parts, ThePart) = <<color>>

\* Several render() calls of one task have all resumed
C10_Witness ==
    /\ task.syncs = 0 /\ shadowRoot # NULL
    /\ phase = "microtasks" /\ microtasks = 0
    /\ task.calls >= 2
    /\ renderCount = task.start + 1

\* C11: a render({sync: true}) renders at once and clears the flag, and
\* when it came after the task's last render() request, the continuations
\* of the requests render nothing.
C11_SyncRenderClearsFlag ==
    [][/\ task'.syncs > task.syncs =>
            renderCount' = renderCount + 1 /\ ~needsRender'
       /\ (task.last = "sync" /\ phase = "microtasks") =>
            (renderCount' = renderCount /\ UNCHANGED tvars
             /\ ~needsRender')]_vars

\* A request, then a synchronous render, and the request's continuation ran
C11_Witness ==
    /\ task.last = "sync" /\ task.calls >= 1
    /\ phase = "microtasks" /\ microtasks < task.calls
    /\ Last.op = "sync"

----------------------------------------------------------------------------
(* Key bindings: registeredElements maps a key to the array of the         *)
(* elements bound to it; its domain is the set of keys that have an entry. *)

\* delete registeredElements[k]
DeleteKey(reg, k) == [j \in DOMAIN reg \ {k} |-> reg[j]]

\* registeredElements[k] = list
PutKey(reg, k, list) ==
    [j \in DOMAIN reg \cup {k} |-> IF j = k THEN list ELSE reg[j]]

\* The first half of __register: element e leaves the list of key b
Unregister(reg, e, b) ==
    IF b # "" /\ b \in DOMAIN reg /\ IndexOf(reg[b], e) # 0
    THEN LET list == RemoveAt(reg[b], IndexOf(reg[b], e)) IN
         IF Len(list) = 0 THEN DeleteKey(reg, b) ELSE PutKey(reg, b, list)
    ELSE reg

\* __register that leaves the element in the list of its old key
__register_KeepsOldKey(reg, e, a, b, ov) ==
    IF a # ""
    THEN LET list == IF a \in DOMAIN reg THEN reg[a] ELSE <<>> IN
         PutKey(reg, a, IF ov THEN <<e>> \o list ELSE Append(list, e))
    ELSE reg

\* GluonKeybinding.__register(a, b) of element e whose override is ov
__register(reg, e, a, b, ov) ==
    LET r1 == Unregister(reg, e, b) IN
    IF a # ""
    THEN LET list == IF a \in DOMAIN r1 THEN r1[a] ELSE <<>> IN
         PutKey(r1, a, IF ov THEN <<e>> \o list ELSE Append(list, e))
    ELSE r1

\* GluonKeybinding.__override(a) of element e
__override(reg, e, a) ==
    IF a # "" /\ a \in DOMAIN reg /\ IndexOf(reg[a], e) # 0
    THEN [reg EXCEPT ![a] = <<e>> \o RemoveAt(@, IndexOf(@, e))]
    ELSE reg

\* registeredElements[key].every(...) of handleKeydown from position i on:
\* the elements clicked, in order.  every stops at the first element whose
\* callback returns a falsy value.
RECURSIVE Every(_, _)

Every(list, i) ==
    IF i > Len(list) THEN <<>>
    ELSE LET b == list[i] IN
         IF offsetParent[b]
         THEN <<b>> \o (IF ~override[b] THEN Every(list, i + 1) ELSE <<>>)
         ELSE <<>>

\* handleKeydown(a): the elements clicked
handleKeydown(k, defaultPrevented) ==
    IF defaultPrevented \/ k \notin DOMAIN registeredElements THEN <<>>
    ELSE Every(registeredElements[k], 1)

OnlyKeys == UNCHANGED <<tvars, gvars, dvars, rvars>>

\* The key attribute of e is set to k, or removed (k = ""):
\* attributeChangedCallback('key', old, k)
SetKey(e, k) ==
    /\ k # "" \/ key[e] # ""
    /\ registeredElements' =
           __register(registeredElements, e, k, key[e], override[e])
    /\ key' = [key EXCEPT ![e] = k]
    /\ registered' =
           LET r == IF IndexOf(registered, e) # 0
                    THEN RemoveAt(registered, IndexOf(registered, e))
                    ELSE registered
           IN IF k # "" THEN Append(r, e) ELSE r
    /\ keydown' = NoKeydown
    /\ UNCHANGED <<override, offsetParent>>
    /\ OnlyKeys

\* The override attribute of e is set (b) or removed:
\* attributeChangedCallback('override', ...)
SetOverride(e, b) ==
    /\ b \/ override[e]
    /\ override' = [override EXCEPT ![e] = b]
    /\ registeredElements' = __override(registeredElements, e, key[e])
    /\ keydown' = NoKeydown
    /\ UNCHANGED <<key, offsetParent, registered>>
    /\ OnlyKeys

\* The page shows or hides element e
SetVisible(e, b) ==
    /\ offsetParent[e] # b
    /\ offsetParent' = [offsetParent EXCEPT ![e] = b]
    /\ keydown' = NoKeydown
    /\ UNCHANGED <<registeredElements, key, override, registered>>
    /\ OnlyKeys

\* A keydown event for key k reaches the window listener
Keydown(k, defaultPrevented) ==
    /\ keydown' = [key |-> k, defaultPrevented |-> defaultPrevented,
                   clicks |-> handleKeydown(k, defaultPrevented)]
    /\ UNCHANGED <<registeredElements, key, override, offsetParent,
                   registered>>
    /\ OnlyKeys

NextKeys ==
    \/ \E e \in Elements : \E k \in Keys \cup {""} : SetKey(e, k)
    \/ \E e \in Elements : \E b \in BOOLEAN : SetOverride(e, b)
    \/ \E e \in Elements : \E b \in BOOLEAN : SetVisible(e, b)
    \/ \E k \in Keys : \E p \in BOOLEAN : Keydown(k, p)

SpecKeys == Start(World0) /\ [][NextKeys]_vars

\* The elements bound to key k that are visible
VisibleFor(k) ==
    {e \in Elements : key[e] = k /\ offsetParent[e]}

\* A keydown for a key with exactly two registrants, both visible, was the
\* last step
TwoVisible ==
    /\ keydown.key # "" /\ ~keydown.defaultPrevented
    /\ keydown.key \in DOMAIN registeredElements
    /\ Len(registeredElements[keydown.key]) = 2
    /\ Cardinality(VisibleFor(keydown.key)) = 2

\* The element that is to be clicked first: the override-flagged one if
\* there is exactly one, else the one registered last
FirstOf(k) ==
    LET es == VisibleFor(k)
        flagged == {e \in es : override[e]}
    IN IF Cardinality(flagged) = 1 THEN CHOOSE e \in flagged : TRUE
       ELSE CHOOSE e \in es :
              \A f \in es : IndexOf(registered, f) <= IndexOf(registered, e)

\* C12: with two visible elements registered for a key, a keydown clicks
\* first the override-flagged one, else the most recently registered one,
\* and clicks the other only if the first has no override.
C12_MostRecentClickedFirst ==
    TwoVisible =>
        /\ keydown.clicks # <<>>
        /\ keydown.clicks[1] = FirstOf(keydown.key)
        /\ override[keydown.clicks[1]] => Len(keydown.clicks) = 1

\* C13: a keydown clicks only visible elements registered for its key, and
\* clicks one whenever a visible element is registered for the key and the
\* event is not defaultPrevented.
C13_VisibleElementClicked ==
    keydown.key # "" =>
        /\ \A i \in 1..Len(keydown.clicks) :
               keydown.clicks[i] \in VisibleFor(keydown.key)
        /\ (~keydown.defaultPrevented /\ VisibleFor(keydown.key) # {}) =>
               keydown.clicks # <<>>

----------------------------------------------------------------------------
(* Slides *)

\* SlidemSlideBase.__setStep(t): reveal element n (from 0) is shown when
\* n < t - 1
__setStep(slide, t) ==
    Let(Minus1(t), LAMBDA shown :
        [slide EXCEPT !.opacity = [n \in 1..Len(@) |->
                                     IF Less(n - 1, shown) THEN 1 ELSE 0]])

\* attributeChangedCallback("step", ...) without the test of t
SetStepAttribute_NoClamp(slide, text) ==
    __setStep([slide EXCEPT !.step = text], Number(text))

\* setAttribute("step", text) on a connected slide, with the
\* attributeChangedCallback("step", old, text) that it causes
RECURSIVE SetStepAttribute(_, _)

SetStepAttribute(slide, text) ==
    Let(Len(slide.opacity), LAMBDA steps :
    Let(Number(text), LAMBDA t :
        IF Greater(t, steps + 1)
        THEN SetStepAttribute([slide EXCEPT !.step = text],
                              NumberToString(steps + 1))
        ELSE __setStep([slide EXCEPT !.step = text], t)))

\* The step getter: Number(this.getAttribute("step")) || 1
SlideStep(slide) ==
    Let(Number(slide.step), LAMBDA n : IF n \in {0, NaN} THEN 1 ELSE n)

\* this.slides[i] is a slide
HasSlide(ss, i) == i >= 0 /\ i < Len(ss)

\* removeAttribute("active") that leaves the attribute in place
WithActive_NeverRemoves(ss, i, b) ==
    IF i = NoSlide \/ ~b THEN ss ELSE [ss EXCEPT ![i + 1].active = b]

\* setAttribute / removeAttribute of active, next and previous on
\* this.slides[i]
WithActive(ss, i, b) ==
    IF i = NoSlide THEN ss ELSE [ss EXCEPT ![i + 1].active = b]

WithNext(ss, i, b) ==
    IF i = NoSlide THEN ss ELSE [ss EXCEPT ![i + 1].next = b]

WithPrevious(ss, i, b) ==
    IF i = NoSlide THEN ss ELSE [ss EXCEPT ![i + 1].previous = b]

\* classList.add("active") / remove("active") on progress.children[i]
WithDot(ss, i, b) ==
    IF i = NoSlide THEN ss ELSE [ss EXCEPT ![i + 1].dot = b]

\* The first two statements of the deck's route change callback:
\* slides[currentSlide].step = currentStep + 1 and setAttribute("active")
ActivateCurrent(ss, hash) ==
    Let(currentSlide(hash), LAMBDA cs :
    Let(Plus1(currentStep(hash)), LAMBDA step :
    Let(NumberToString(step), LAMBDA text :
        WithActive([ss EXCEPT ![cs + 1] = SetStepAttribute(@, text)],
                   cs, TRUE))))

\* The deck's route change callback for hash, on the slides ss and the
\* fields dk of the deck (the animate-forward and animate-backward classes
\* are left out).  It throws when the hash names no slide of the deck.
RouteCallback(ss, dk, hash) ==
    Let(currentSlide(hash), LAMBDA cs :
    LET nextSlide == IF HasSlide(ss, cs + 1) THEN cs + 1 ELSE NoSlide
        prev == dk.previousSlide
    IN IF ~HasSlide(ss, cs) THEN [slides |-> ss, deck |-> dk, err |-> TRUE]
       ELSE IF prev = cs
       THEN [slides |-> ActivateCurrent(ss, hash), deck |-> dk,
             err |-> FALSE]
       ELSE [slides |->
               WithDot(
                 WithDot(
                   WithPrevious(
                     WithActive(
                       WithPrevious(
                         WithNext(
                           WithNext(ActivateCurrent(ss, hash),
                                    dk.oldNextSlide, FALSE),
                           nextSlide, TRUE),
                         dk.oldPreviousSlide, FALSE),
                       prev, FALSE),
                     prev, TRUE),
                   prev, FALSE),
                 cs, TRUE),
             deck |-> [previousSlide |-> cs,
                       nextSlide |-> nextSlide,
                       oldNextSlide |-> IF nextSlide # NoSlide
                                        THEN nextSlide
                                        ELSE dk.oldNextSlide,
                       oldPreviousSlide |-> IF prev # NoSlide THEN prev
                                            ELSE dk.oldPreviousSlide],
             err |-> FALSE])

\* The state of the decks as one record
Decks ==
    [location |-> location, storage |-> storage, events |-> events,
     slides |-> slides, deck |-> deck]

\* notifyRouteChange in the window of view v: the deck is the one
\* registered callback; what it throws is reported and the dispatch
\* returns
notifyRouteChange(D, v) ==
    Let(RouteCallback(D.slides[v], D.deck[v], D.location[v]), LAMBDA r :
        [D EXCEPT !.slides[v] = r.slides, !.deck[v] = r.deck])

\* localStorage.setItem("location", value) in the window of view v: a
\* change of the entry queues a storage event in every other window
setItem(D, v, value) ==
    IF D.storage = [set |-> TRUE, value |-> value] THEN D
    ELSE [D EXCEPT !.storage = [set |-> TRUE, value |-> value],
                   !.events = [u \in Views |->
                                 IF u = v THEN @[u] ELSE Append(@[u], value)]]

\* changeLocation({hash}): pushState, the location-changed event, and
\* localStorage.setItem("location", currentHash())
changeLocation(D, v, hash) ==
    Let(notifyRouteChange([D EXCEPT !.location[v] = hash], v),
        LAMBDA D1 : setItem(D1, v, hash))

\* forward.onclick in view v; it throws (and changes nothing) when the
\* hash names no slide
ForwardClick(D, v) ==
    LET cs == currentSlide(D.location[v]) IN
    IF ~HasSlide(D.slides[v], cs) THEN D
    ELSE LET slide == D.slides[v][cs + 1]
             steps == Len(slide.opacity)
         IN IF steps # 0 /\ SlideStep(slide) <= steps
            THEN changeLocation(D, v,
                                SlideStepHash(cs + 1, SlideStep(slide) + 1))
            ELSE IF cs < Len(D.slides[v]) - 1
            THEN changeLocation(D, v, SlideStepHash(cs + 2, 1))
            ELSE D

\* backward.onclick in view v
BackwardClick(D, v) ==
    LET cs == currentSlide(D.location[v]) IN
    IF ~HasSlide(D.slides[v], cs) THEN D
    ELSE LET slide == D.slides[v][cs + 1]
             steps == Len(slide.opacity)
         IN IF steps # 0 /\ SlideStep(slide) > 1
            THEN changeLocation(D, v,
                                SlideStepHash(cs + 1, SlideStep(slide) - 1))
            ELSE IF cs > 0
            THEN changeLocation(D, v,
                   SlideStepHash(cs, Len(D.slides[v][cs].opacity) + 1))
            ELSE D

\* The storage listener of view v for an event with newValue
StorageListener(D, v, newValue) ==
    IF D.location[v] # newValue THEN changeLocation(D, v, newValue) ELSE D

\* The decks are in state D after operation op of view v
CommitDecks(D, op, v, slide, text, navigated) ==
    /\ location' = D.location
    /\ storage' = D.storage
    /\ events' = D.events
    /\ slides' = D.slides
    /\ deck' = D.deck
    /\ did' = [op |-> op, view |-> v, slide |-> slide, text |-> text,
               navigations |-> did.navigations + navigated]

OnlyDecks == UNCHANGED <<tvars, gvars, kvars, rvars>>

\* The user changes the hash of the URL of view v: the hashchange event
\* calls notifyRouteChange
HashChange(v, hash) ==
    /\ CommitDecks(notifyRouteChange([Decks EXCEPT !.location[v] = hash], v),
                   "hashchange", v, 0, hash, 0)
    /\ UNCHANGED fonts
    /\ OnlyDecks

\* The hashes that a user may enter: slide and step numbers, each segment
\* alone, the empty hash, an Infinity step, and texts of other forms
SlideInputs == 0..MaxSlideInput \cup {12}

HashInputs ==
    {SlideStepHash(n, m) : n \in SlideInputs, m \in 0..MaxStepInput}
    \cup {SlidePrefix \o NumberToString(n) : n \in SlideInputs}
    \cup {StepPrefix \o NumberToString(m) : m \in 0..MaxStepInput}
    \cup {<<>>, SlidePrefix, SlidePrefix \o <<"2">> \o StepPrefix,
          SlidePrefix \o <<"2">> \o StepPrefix \o InfinityText,
          <<"x">> \o SlideStepHash(2, 2)}

NextHash == \E hash \in HashInputs : HashChange(1, hash)

SpecHash == Start(World0) /\ [][NextHash]_vars

\* C14: for the hash slide-N/step-M with N >= 1 and M >= 1 currentSlide is
\* N - 1 and currentStep is M - 1; without the step segment currentStep is
\* 0, and without the slide segment currentSlide is 0.
C14_HashParsedZeroBased ==
    \A v \in Views :
        /\ \A n \in SlideInputs \ {0} : \A m \in 1..MaxStepInput :
              /\ location[v] = SlideStepHash(n, m) =>
                    /\ currentSlide(location[v]) = n - 1
                    /\ currentStep(location[v]) = m - 1
              /\ location[v] = SlidePrefix \o NumberToString(n) =>
                    /\ currentSlide(location[v]) = n - 1
                    /\ currentStep(location[v]) = 0
              /\ location[v] = StepPrefix \o NumberToString(m) =>
                    /\ currentSlide(location[v]) = 0
                    /\ currentStep(location[v]) = m - 1
        /\ location[v] = <<>> =>
              currentSlide(location[v]) = 0 /\ currentStep(location[v]) = 0
        /\ (did.op = "hashchange" /\ did.view = v
             /\ HasSlide(slides[v], currentSlide(location[v]))) =>
              slides[v][currentSlide(location[v]) + 1].active

\* The hash slide-12/step-3 was entered
C14_Witness ==
    /\ did.op = "hashchange"
    /\ location[1] = SlideStepHash(12, 3)
    /\ currentSlide(location[1]) = 11

\* slide.setAttribute("step", text) on slide i (from 1) of the deck of
\* view v
SetStep(v, i, text) ==
    /\ CommitDecks([Decks EXCEPT !.slides[v][i] = SetStepAttribute(@, text)],
                   "setStep", v, i, text, 0)
    /\ UNCHANGED fonts
    /\ OnlyDecks

\* The values given to the step attribute: numbers up to two past the
\* largest steps + 1, Infinity, and a text that is no number
StepInputs ==
    {NumberToString(t) : t \in 0..(MaxStepInput + 3)}
    \cup {InfinityText, <<"x">>}

NextSlide ==
    \E i \in 1..Len(SlideSteps) : \E text \in StepInputs :
        SetStep(1, i, text)

SpecSlide == Start(World0) /\ [][NextSlide]_vars

\* The number of reveal elements of the slide that are shown, provided
\* they are the first ones
ShownFirst(slide, k) ==
    \A n \in 1..Len(slide.opacity) :
        slide.opacity[n] = (IF n <= k THEN 1 ELSE 0)

\* C15: a step above steps + 1 (Infinity too) set on a connected slide
\* ends as steps + 1 with every reveal element shown; a step s in
\* 1..steps+1 is kept and shows exactly the first s - 1 reveal elements.
C15_StepClamped ==
    did.op = "setStep" =>
        LET slide == slides[did.view][did.slide]
            steps == SlideSteps[did.slide]
            t == Number(did.text)
        IN /\ Greater(t, steps + 1) =>
                /\ slide.step = NumberToString(steps + 1)
                /\ ShownFirst(slide, steps)
           /\ (t \in 1..(steps + 1)) =>
                /\ slide.step = did.text
                /\ ShownFirst(slide, t - 1)

\* Infinity was set on a slide with reveal elements
C15_Witness ==
    /\ did.op = "setStep" /\ did.text = InfinityText
    /\ SlideSteps[did.slide] = 2
    /\ slides[did.view][did.slide].step = <<"3">>

----------------------------------------------------------------------------
(* defaultPartCallback called by a part callback of the page *)

\* The descriptors given to it: the two kinds that a Template holds and
\* one of another kind
PartDescriptors ==
    {TemplatePart("attribute", 0, "class", "class", <<"", "-", "">>),
     TemplatePart("node", 0, "", "", <<>>),
     TemplatePart("comment", 0, "", "", <<>>)}

\* defaultPartCallback(instance, templatePart, node) for the instance of
\* the container
CallDefaultPartCallback(templatePart, node) ==
    /\ Len(hist) < MaxPartCalls
    /\ Commit(defaultPartCallback(World, tinst[Container], templatePart,
                                  node),
              [op |-> "defaultPartCallback",
               value |-> [templatePart |-> templatePart, node |-> node]])
    /\ UNCHANGED <<gvars, evars>>

NextParts ==
    \E templatePart \in PartDescriptors : \E node \in DOMAIN dom :
        CallDefaultPartCallback(templatePart, node)

SpecParts == Start(WorldPart) /\ [][NextParts]_vars

\* C16: defaultPartCallback makes an AttributePart on the node for an
\* attribute descriptor, a NodePart from the node to its next sibling for
\* a node descriptor, and throws without making a part for any other.
C16_DefaultPartCallback ==
    (hist # <<>> /\ Last.op = "defaultPartCallback") =>
        LET templatePart == Last.value.templatePart
            node == Last.value.node
            part == parts[Len(parts)]
        IN /\ dom = old.dom
           /\ templatePart.type = "attribute" =>
                /\ ~threw /\ Len(parts) = Len(old.parts) + 1
                /\ part.type = "attribute" /\ part.element = node
                /\ part.name = templatePart.name
                /\ part.strings = templatePart.strings
                /\ part.instance = tinst[Container]
           /\ templatePart.type = "node" =>
                /\ ~threw /\ Len(parts) = Len(old.parts) + 1
                /\ part.type = "node" /\ part.startNode = node
                /\ part.endNode = nextSibling(dom, node)
                /\ part.instance = tinst[Container]
           /\ templatePart.type \notin {"attribute", "node"} =>
                threw /\ parts = old.parts

\* A descriptor of another kind was given after a part had been made
C16_Witness ==
    /\ hist # <<>> /\ Last.op = "defaultPartCallback"
    /\ Last.value.templatePart.type = "comment"
    /\ threw /\ Len(parts) = 2

----------------------------------------------------------------------------
(* NodePart.setValue with primitive values *)

\* undefined, null, two strings and an array to leave the primitive case
PrimValues == {Undef, Null, Str("s"), Str("t"), ArrayOf("a", 1)}

NextPrim == \E value \in PrimValues : PartSetValue(value)

SpecPrim == Start(WorldPart) /\ [][NextPrim]_vars

\* The last call gave a primitive that is the previous value of the part
SamePrimitive ==
    /\ hist # <<>> /\ Last.op = "setValue"
    /\ IsPrimitive(Last.value)
    /\ Last.value = old.parts[ThePart].previousValue

\* Every value given to the part so far was undefined, the value that
\* render gave to the new part included
OnlyUndefined == \A i \in 1..Len(hist) : hist[i].value = Undef

\* C20: setValue with a primitive strictly equal to the previous value of
\* the part changes no node of the DOM and keeps the previous value; a
\* part that was only ever given undefined, the previous value of a new
\* part, has no node between its markers.
C20_SamePrimitiveNoWrite ==
    /\ SamePrimitive =>
          /\ ~threw
          /\ dom = old.dom
          /\ parts = old.parts
          /\ parts[ThePart].previousValue = Last.value
    /\ OnlyUndefined =>
          /\ parts[ThePart].previousValue = Undef
          /\ nextSibling(dom, parts[ThePart].startNode)
               = parts[ThePart].endNode

\* The same string was given twice in a row
C20_Witness ==
    /\ SamePrimitive
    /\ Last.value = Str("s")
    /\ Len(hist) >= 2 /\ hist[Len(hist) - 1].value = Str("s")

----------------------------------------------------------------------------
(* Deck views of one origin: navigation, storage events, font loading *)

\* A click on the forward button of view v (or the key bound to it)
Forward(v) ==
    /\ did.navigations < MaxNavigations
    /\ CommitDecks(ForwardClick(Decks, v), "forward", v, 0, <<>>, 1)
    /\ UNCHANGED fonts
    /\ OnlyDecks

\* A click on the backward button of view v
Backward(v) ==
    /\ did.navigations < MaxNavigations
    /\ CommitDecks(BackwardClick(Decks, v), "backward", v, 0, <<>>, 1)
    /\ UNCHANGED fonts
    /\ OnlyDecks

\* The window of view v handles its oldest storage event
StorageEvent(v) ==
    /\ events[v] # <<>>
    /\ \E D \in {StorageListener([Decks EXCEPT !.events[v] = Tail(@)], v,
                                   Head(events[v]))} :
           CommitDecks(D, "storage", v, 0, Head(events[v]), 0)
    /\ UNCHANGED fonts
    /\ OnlyDecks

\* The promise of all font loads of view v settles, fulfilled or
\* rejected: its callback requests an animation frame
FontsSettle(v) ==
    /\ fonts[v] = "loading"
    /\ fonts' = [fonts EXCEPT ![v] = "settled"]
    /\ CommitDecks(Decks, "fonts", v, 0, <<>>, 0)
    /\ OnlyDecks

\* The animation frame of view v dispatches location-changed
AnimationFrame(v) ==
    /\ fonts[v] = "settled"
    /\ fonts' = [fonts EXCEPT ![v] = "shown"]
    /\ CommitDecks(notifyRouteChange(Decks, v), "frame", v, 0, <<>>, 0)
    /\ OnlyDecks

\* Two views navigate by their buttons and hear of each other through
\* the storage events
NextSync ==
    \E v \in Views :
        \/ Forward(v)
        \/ Backward(v)
        \/ StorageEvent(v)

\* Every window handles the storage events queued for it
SpecSync ==
    /\ Start(World0)
    /\ [][NextSync]_vars
    /\ \A v \in Views : WF_vars(StorageEvent(v))

\* No storage event is waiting and every view shows the same hash
Settled ==
    /\ \A v \in Views : events[v] = <<>>
    /\ \A u, v \in Views : location[u] = location[v]

\* C18: after the views have navigated, the storage events die out and
\* all views show the same hash from then on, also when two views
\* navigate concurrently.
C18_ViewsSettle == <>[]Settled

\* The hashes typed into the address bar while the decks are watched
DeckHashes == {SlideStepHash(3, 1)}

\* View 1 from its connection on: its fonts load, its user navigates by
\* the buttons or the address bar; the storage events arrive in every view
NextDeck ==
    \/ Forward(1)
    \/ Backward(1)
    \/ FontsSettle(1)
    \/ AnimationFrame(1)
    \/ \E hash \in DeckHashes : HashChange(1, hash)
    \/ \E v \in Views : StorageEvent(v)

SpecDeck == Start(World0) /\ [][NextDeck]_vars

\* C19: while the promise of the font loads of a view has not settled, no
\* slide of the view has the active attribute, whatever the user does.
C19_HiddenWhileLoading ==
    \A v \in Views :
        fonts[v] = "loading" => \A i \in 1..Len(slides[v]) : ~slides[v][i].active

----------------------------------------------------------------------------
(* Routing: registrations and events of one window *)

OnlyRouting == UNCHANGED <<tvars, gvars, kvars, dvars>>

\* A component calls onRouteChange(a)
Register(a) ==
    /\ Len(routeChangeCallbacks) < MaxRegistrations
    /\ \E R \in {onRouteChange(Routing, a)} :
         /\ routingEnabled' = R.routingEnabled
         /\ routeChangeCallbacks' = R.routeChangeCallbacks
         /\ listeners' = R.listeners
    /\ since' = Append(since, Len(eventLog))
    /\ UNCHANGED <<url, calls, eventLog>>
    /\ OnlyRouting

\* The window's location has become u and an event of the type is
\* dispatched
RouteEvent(type, u) ==
    /\ Len(eventLog) < MaxEvents
    /\ url' = u
    /\ eventLog' = Append(eventLog, [type |-> type, url |-> u])
    /\ calls' = calls \o dispatchEvent(Routing, type, u, Len(eventLog) + 1)
    /\ UNCHANGED <<routingEnabled, routeChangeCallbacks, listeners, since>>
    /\ OnlyRouting

\* The user changes the hash in the address bar
RouteHashChange(u) ==
    /\ u.pathname = url.pathname /\ u.search = url.search
    /\ u.hash # url.hash
    /\ RouteEvent("hashchange", u)

\* The user goes back or forward in the history
PopState(u) == RouteEvent("popstate", u)

\* A component calls pushState for u and dispatches location-changed
LocationChanged(u) == RouteEvent("location-changed", u)

\* globalClickHandler for a click on a link to u of the same origin: it
\* runs once routing is enabled, and does nothing for the current URL
LinkClick(u) ==
    /\ listeners["click"] >= 1
    /\ u # url
    /\ RouteEvent("location-changed", u)

NextRoute ==
    \/ \E a \in Callbacks : Register(a)
    \/ \E u \in Locations :
         \/ RouteHashChange(u)
         \/ PopState(u)
         \/ LocationChanged(u)
         \/ LinkClick(u)

SpecRoute == Start(World0) /\ [][NextRoute]_vars

\* The invocations that the events from number n on owe to the
\* registrations: for each event, in their order, the registrations made
\* before it, each with the path, query and hash of the location then
RECURSIVE ExpectedCalls(_)

ExpectedCalls(n) ==
    IF n > Len(eventLog) THEN <<>>
    ELSE [i \in 1..Cardinality({j \in 1..Len(since) : since[j] < n}) |->
            [registration |-> i, callback |-> routeChangeCallbacks[i],
             event |-> n,
             path |-> currentPath(eventLog[n].url),
             query |-> currentQuery(eventLog[n].url),
             hash |-> currentHash(eventLog[n].url)]]
         \o ExpectedCalls(n + 1)

----------------------------------------------------------------------------
(* NodePart.setValue with values of every kind on one part *)

\* The page after render(html`<p>${undefined}</p>`, container, custom)
\* with a part callback of the caller, and two nodes that are in no
\* document: an <i> element and a text
WorldNodes ==
    Let(html(World0, 1, <<Undef>>), LAMBDA h :
    Let(render(h.w, h.result, Container, "custom"), LAMBDA w :
        [w EXCEPT !.dom = Append(Append(@, NewNode("elem", "i", <<>>)),
                                 NewNode("text", "#text", <<"n">>))]))

SpareNodes == {Len(WorldPart.dom) + 1, Len(WorldPart.dom) + 2}

\* Primitives, null from a directive, arrays of one and two strings, the
\* spare nodes
PartValues ==
    {Undef, Null, Str("s"), Str("t"), Directive(Null), Directive(Str("s")),
     ArrayOf("a", 1), ArrayOf("a", 2)}
    \cup {DomNode(n) : n \in SpareNodes}

\* part.setValue(value)
SetPartValue(value) ==
    /\ Len(hist) < MaxPartSteps
    /\ Commit(setValue(World, ThePart, value),
              [op |-> "setValue", value |-> value])
    /\ UNCHANGED <<gvars, evars>>

\* part.setValue(html`...`) for literal l with the values
SetPartResult(l, values) ==
    /\ Len(hist) < MaxPartSteps
    /\ \E h \in {html(World, l, values)} :
         Commit(setValue(h.w, ThePart, h.result),
                [op |-> "setValue", value |-> h.result])
    /\ UNCHANGED <<gvars, evars>>

\* The values of the nested templates: literals 1 and 2 are <p>${v}</p>
\* at two call sites, literal 3 starts with an expression
ResultValues(l) ==
    IF l = 3
    THEN {<<v, Str("c"), Str("d"), Str("e")>> : v \in {Undef, Str("s")}}
    ELSE {<<v>> : v \in {Str("s"), Str("t")}}

NextPart ==
    \/ \E value \in PartValues : SetPartValue(value)
    \/ \E l \in 1..3 : \E values \in ResultValues(l) :
         SetPartResult(l, values)

SpecPart == Start(WorldNodes) /\ [][NextPart]_vars

\* The last call gave the part a primitive that is not its previous value
NewPrimitive ==
    /\ hist # <<>> /\ Last.op = "setValue"
    /\ IsPrimitive(getValue(Last.value))
    /\ getValue(Last.value) # old.parts[ThePart].previousValue

\* The gap of the part held one node, a text, before the last call
OneTextBefore ==
    LET gap == Gap(old.dom, old.parts, ThePart)
    IN Len(gap) = 1 /\ old.dom[gap[1]].kind = "text"

\* C21: setValue with a primitive that differs from the previous value
\* keeps a single text node of the gap and changes its text only, and
\* otherwise clears the gap and inserts one new text node; afterwards the
\* gap holds one text node with the text of the value, and the previous
\* value is the value.
C21_PrimitiveSetsOneText ==
    NewPrimitive =>
        LET before == Gap(old.dom, old.parts, ThePart)
            gap == Gap(dom, parts, ThePart)
            value == getValue(Last.value)
        IN /\ ~threw
           /\ Len(gap) = 1
           /\ dom[gap[1]].kind = "text"
           /\ dom[gap[1]].data = <<TextData(value)>>
           /\ parts[ThePart].previousValue = value
           /\ IF OneTextBefore
              THEN /\ gap = before
                   /\ Len(dom) = Len(old.dom)
                   /\ \A n \in DOMAIN dom :
                        n # gap[1] => dom[n] = old.dom[n]
              ELSE /\ gap[1] = Len(old.dom) + 1
                   /\ Len(dom) = Len(old.dom) + 1
                   /\ \A i \in 1..Len(before) :
                        dom[before[i]].parent = NULL

\* A string replaced an element by a new text node, and a second string
\* then changed the text of that node
C21_Witness ==
    /\ NewPrimitive
    /\ Len(hist) = 3
    /\ hist[1].value = DomNode(Len(WorldPart.dom) + 1)
    /\ hist[2].value = Str("s")
    /\ hist[3].value = Str("t")
    /\ OneTextBefore

\* The world before the last call, for a call that left the templates and
\* the thenables alone
OldWorld ==
    [World EXCEPT !.dom = old.dom, !.parts = old.parts,
                  !.insts = old.insts, !.tinst = old.tinst,
                  !.templates = old.templates]

\* The last call gave the part null, or a directive that returns null
NullGiven ==
    /\ hist # <<>> /\ Last.op = "setValue"
    /\ Last.value \in {Null, Directive(Null)}

\* C22: null given to a Node Part, directly or by a directive, does what
\* undefined does: the part shows no text, never the text null.
C22_NullIsUndefined ==
    NullGiven =>
        /\ \E u \in {setValue(OldWorld, ThePart, Undef)} :
             dom = u.dom /\ parts = u.parts /\ threw = u.err
        /\ ~threw
        /\ parts[ThePart].previousValue = Undef
        /\ Shown(dom, parts, ThePart) = <<>>
        /\ Len(Gap(dom, parts, ThePart)) <= 1

\* A directive returned null for a part that showed an element
C22_Witness ==
    /\ NullGiven
    /\ Last.value = Directive(Null)
    /\ old.parts[ThePart].previousValue = DomNode(Len(WorldPart.dom) + 1)
    /\ Len(Gap(dom, parts, ThePart)) = 1

\* The last call gave the part a TemplateResult
ResultGiven == hist # <<>> /\ Last.op = "setValue" /\ Last.value.k = "result"

\* ... and the previous value of the part was an instance of its Template
Reused ==
    /\ ResultGiven
    /\ old.parts[ThePart].previousValue.k = "instance"
    /\ old.insts[old.parts[ThePart].previousValue.id].template
         = Last.value.template

\* The elements among the nodes
ElementsOf(d, nodes) == SelectSeq(nodes, LAMBDA n : d[n].kind = "elem")

\* The markers of the Node Parts of instance i
MarkersOf(ps, is, i) ==
    UNION {{ps[is[i].parts[k]].startNode, ps[is[i].parts[k]].endNode} :
             k \in {j \in 1..Len(is[i].parts) :
                      ps[is[i].parts[j]].type = "node"}}

\* C23 as stated: when the instance is reused, the nodes between the
\* markers of the part are the same as before.
C23_ReuseKeepsGap ==
    Reused => Gap(dom, parts, ThePart) = Gap(old.dom, old.parts, ThePart)

\* C23: a TemplateResult of the Template of the previous instance reuses
\* the instance: the call does what update(values) on the instance does,
\* the elements and part markers of the instance stay where they are; any
\* other previous value is cleared away and a new instance with the part
\* callback of the owning instance is cloned, inserted and recorded.
C23_ResultReusesInstance ==
    ResultGiven =>
        LET prev == old.parts[ThePart].previousValue
            before == Gap(old.dom, old.parts, ThePart)
            gap == Gap(dom, parts, ThePart)
            i == Len(insts)
        IN /\ ~threw
           /\ IF Reused
              THEN /\ parts[ThePart].previousValue = prev
                   /\ Len(insts) = Len(old.insts)
                   /\ insts = old.insts
                   /\ \E u \in {update(OldWorld, prev.id,
                                        Last.value.values)} :
                        dom = u.dom /\ parts = u.parts
                   /\ ElementsOf(dom, gap) = ElementsOf(old.dom, before)
                   /\ \A m \in MarkersOf(old.parts, old.insts, prev.id) :
                        dom[m].parent = old.dom[m].parent
              ELSE /\ Len(insts) = Len(old.insts) + 1
                   /\ parts[ThePart].previousValue
                        = [k |-> "instance", id |-> i]
                   /\ insts[i].template = Last.value.template
                   /\ insts[i].partCallback
                        = old.insts[old.parts[ThePart].instance].partCallback
                   /\ \A k \in 1..Len(before) :
                        dom[before[k]].parent = NULL
                   /\ gap # <<>>
                   /\ \A k \in 1..Len(gap) : gap[k] > Len(old.dom)

\* The template of the previous instance was given again with another
\* value, after a template of another call site
C23_Witness ==
    /\ Reused
    /\ Len(hist) = 3
    /\ hist[1].value.k = "result" /\ hist[2].value.k = "result"
    /\ hist[1].value.template # hist[2].value.template
    /\ hist[2].value.values = <<Str("s")>>
    /\ hist[3].value.values = <<Str("t")>>
    /\ insts[Len(insts)].partCallback = "custom"

\* The last call gave the part a DOM node
NodeGiven == hist # <<>> /\ Last.op = "setValue" /\ Last.value.k = "node"

----------------------------------------------------------------------------
(* The child parts of an iterable (SpecIter) *)

\* The last two calls gave the part arrays of at least one item, and the
\* first of them returned
TwoArrays ==
    /\ WasArray(Len(hist)) /\ WasArray(Len(hist) - 1)
    /\ ~hist[Len(hist) - 1].threw
    /\ Len(Last.value.items) > 0
    /\ Len(hist[Len(hist) - 1].value.items) > 0

\* itemParts of the part, now and before the last call
ItemPartsNow == parts[ThePart].previousValue.ids

ItemPartsBefore == old.parts[ThePart].previousValue.ids

Min(a, b) == IF a < b THEN a ELSE b

\* C24: over two successive renders of non-empty iterables the child part
\* at every index below both item counts is the same object with the same
\* start marker.
C24_ChildPartsReusedByIndex ==
    TwoArrays =>
        /\ parts[ThePart].previousValue.k = "itemParts"
        /\ old.parts[ThePart].previousValue.k = "itemParts"
        /\ \A i \in 1..Min(Len(Last.value.items),
                            Len(hist[Len(hist) - 1].value.items)) :
             /\ i <= Len(ItemPartsBefore) /\ i <= Len(ItemPartsNow)
             /\ ItemPartsNow[i] = ItemPartsBefore[i]
             /\ parts[ItemPartsNow[i]].startNode
                  = old.parts[ItemPartsBefore[i]].startNode

\* Three items with other texts were rendered after two items
C24_Witness ==
    /\ TwoArrays
    /\ hist[Len(hist) - 1].value = ArrayOf("a", 2)
    /\ Last.value = ArrayOf("b", 3)
    /\ Len(hist) = 2 /\ ~threw
    /\ Shown(dom, parts, ThePart) = <<"b1", "b2", "b3">>

\* C25: after an iterable of fewer items, but at least one, the list of
\* child parts has as many child parts as the iterable has items, and
\* the markers of every child part of the list are in the DOM.
C25_ShrinkDropsParts ==
    (TwoArrays /\ Len(Last.value.items)
                    < Len(hist[Len(hist) - 1].value.items)) =>
        /\ Len(ItemPartsNow) = Len(Last.value.items)
        /\ \A i \in 1..Len(ItemPartsNow) :
             /\ dom[parts[ItemPartsNow[i]].startNode].parent # NULL
             /\ dom[parts[ItemPartsNow[i]].endNode].parent # NULL

\* C26: after a render of an iterable of at least one item that returned,
\* the child parts of the items form a chain from the start marker of the
\* outer part to its end marker, linked by separator nodes of the DOM.
C26_ChildPartsChained ==
    (WasArray(Len(hist)) /\ Len(Last.value.items) > 0 /\ ~threw) =>
        LET m == Len(Last.value.items)
            outer == parts[ThePart]
        IN /\ Len(ItemPartsNow) >= m
           /\ parts[ItemPartsNow[1]].startNode = outer.startNode
           /\ parts[ItemPartsNow[m]].endNode = outer.endNode
           /\ \A i \in 1..(m - 1) :
                LET sep == parts[ItemPartsNow[i]].endNode IN
                /\ sep = parts[ItemPartsNow[i + 1]].startNode
                /\ dom[sep].kind = "text"
                /\ dom[sep].parent = dom[outer.endNode].parent

----------------------------------------------------------------------------
(* Promises and a thenable object that calls back inside then
   (SpecThenable) *)

ThenableValues == ThenValues \cup {Thenable(SyncThenable)}

NextThenable ==
    \/ \E value \in ThenableValues : ThenSetValue(value)
    \/ \E t \in 1..MaxThen : Settle(t)
    \/ RunJob

SpecThenable == Start(WorldPart) /\ [][NextThenable]_vars

\* C27: a thenable given to a Node Part is its previous value before any
\* resolution of it is handled, whatever moment its then calls the callback
\* at: when it was the last value set, it has resolved and no call of a
\* callback is outstanding, the part shows what it resolved with.
C27_ResolutionRendered ==
    (/\ SetOps # {} /\ LastSet.k = "thenable"
     /\ thens[LastSet.id].state = "settled" /\ jobs = <<>>) =>
        /\ ~threw
        /\ Shown(dom, parts, ThePart) = <<Resolution(LastSet.id).v>>

----------------------------------------------------------------------------
(* Instances cloned from the Templates of the literals (SpecClone) *)

MaxClones == 3

\* new TemplateInstance(template, defaultPartCallback)._clone() for the
\* Template of literal l, lines 57-58 and 263-264
Instantiate(l) ==
    /\ Len(hist) < MaxClones
    /\ \E h \in {html(World, l, <<>>)} :
         Commit(Try(h.w, LAMBDA w1 :
                  _clone([w1 EXCEPT !.insts = Append(@,
                            TemplateInstance(h.result.template, "default"))],
                         Len(w1.insts) + 1)),
                [op |-> "clone", value |-> [k |-> "literal", l |-> l]])
    /\ UNCHANGED <<gvars, evars>>

NextClone == \E l \in Literals : Instantiate(l)

SpecClone == Start(World0) /\ [][NextClone]_vars

\* The nodes below the nodes ns in document order
RECURSIVE DocumentOrder(_, _)

DocumentOrder(d, ns) ==
    IF ns = <<>> THEN <<>>
    ELSE <<Head(ns)>> \o DocumentOrder(d, d[Head(ns)].kids)
                     \o DocumentOrder(d, Tail(ns))

\* The fragment made last, which is the one of the last clone
LastFragment ==
    CHOOSE f \in 1..Len(dom) :
      dom[f].kind = "frag" /\ \A g \in (f + 1)..Len(dom) : dom[g].kind # "frag"

\* The element of the literal's markup that binds attribute name
BindsAttribute(strings, tag, name) ==
    \E k \in 1..Len(ParseHTML(strings)) :
      LET e == ParseHTML(strings)[k] IN
      /\ e.kind = "elem" /\ e.tag = tag
      /\ \E a \in 1..Len(e.attrs) :
           e.attrs[a].name = name /\ Len(e.attrs[a].value) > 1

\* The expressions that descriptor tp takes
Expressions(tp) == IF tp.type = "attribute" THEN Len(tp.strings) - 1 ELSE 1

RECURSIVE SumExpressions(_)

SumExpressions(tps) ==
    IF tps = <<>> THEN 0
    ELSE Expressions(Head(tps)) + SumExpressions(Tail(tps))

\* C29: a clone of a compiled Template has one part per descriptor, in the
\* order of the descriptors, and the part of a descriptor is bound to the
\* node at the descriptor's index in the document order of the fragment's
\* elements and texts: the markers of one text follow each other, the
\* attributes of one element share its index, and no whitespace text that
\* the compilation removed is counted.
C29_PartsAlignWithDescriptors ==
    (hist # <<>> /\ Last.op = "clone") =>
        LET i == Len(insts)
            template == tmpls[insts[i].template]
            tparts == template.parts
            strings == LiteralStrings(Last.value.l)
            order == DocumentOrder(dom, dom[LastFragment].kids)
            content == DocumentOrder(dom, dom[template.element].kids)
        IN /\ ~threw
           /\ SumExpressions(tparts) = Len(strings) - 1
           /\ Len(insts[i].parts) = Len(tparts)
           /\ Len(order) = Len(content)
           /\ \A k \in 1..Len(order) :
                /\ dom[order[k]].kind = dom[content[k]].kind
                /\ dom[order[k]].tag = dom[content[k]].tag
                /\ dom[order[k]].data = dom[content[k]].data
                /\ (dom[order[k]].kind = "text" /\ IsBlank(dom[order[k]].data))
                     => \E j \in 1..Len(tparts) :
                          /\ parts[insts[i].parts[j]].type = "node"
                          /\ order[k] \in
                               {parts[insts[i].parts[j]].startNode,
                                parts[insts[i].parts[j]].endNode}
           /\ \A j \in 1..Len(tparts) :
                LET tp == tparts[j]
                    part == parts[insts[i].parts[j]]
                IN /\ tp.index + 1 \in 1..Len(order)
                   /\ part.type = tp.type
                   /\ part.instance = i
                   /\ (j > 1) => tparts[j - 1].index <= tp.index
                   /\ IF tp.type = "node"
                      THEN /\ part.startNode = order[tp.index + 1]
                           /\ dom[part.startNode].kind = "text"
                           /\ tp.index + 2 \in 1..Len(order)
                           /\ part.endNode = order[tp.index + 2]
                           /\ part.endNode = nextSibling(dom, part.startNode)
                           /\ (j > 1 /\ tparts[j - 1].type = "node"
                               /\ parts[insts[i].parts[j - 1]].endNode
                                    = part.startNode)
                                => tp.index = tparts[j - 1].index + 1
                      ELSE /\ part.element = order[tp.index + 1]
                           /\ part.name = tp.name
                           /\ BindsAttribute(strings, dom[part.element].tag,
                                             tp.name)
                           /\ (j > 1 /\ tparts[j - 1].type = "attribute"
                               /\ parts[insts[i].parts[j - 1]].element
                                    = part.element)
                                => tp.index = tparts[j - 1].index

\* A second instance of the Template with two bound attributes on one
\* element, a text with two expressions and removed whitespace
C29_Witness ==
    /\ Len(hist) >= 2 /\ Last.op = "clone" /\ ~threw
    /\ Last.value.l = LinkLiteral
    /\ hist[Len(hist) - 1].value.l = LinkLiteral
    /\ Len(insts[Len(insts)].parts) = 4
    /\ Len(tmpls) = 1

----------------------------------------------------------------------------
(* The registry of the key bindings (SpecKeys) *)

\* The positions of element e in the list of key k
PositionsOf(e, k) ==
    {i \in 1..Len(registeredElements[k]) : registeredElements[k][i] = e}

\* C30: after any changes of key and override attributes each element is
\* at most once in the registry, in the list of the key it has now and in
\* no list when it has no key, and no key of the registry has an empty
\* list.
C30_RegistryConsistent ==
    /\ \A k \in DOMAIN registeredElements :
         /\ k \in Keys
         /\ registeredElements[k] # <<>>
         /\ \A i \in 1..Len(registeredElements[k]) :
              registeredElements[k][i] \in Elements
    /\ \A e \in Elements : \A k \in DOMAIN registeredElements :
         /\ Cardinality(PositionsOf(e, k)) <= 1
         /\ PositionsOf(e, k) # {} => key[e] = k
    /\ \A e \in Elements :
         key[e] # "" => /\ key[e] \in DOMAIN registeredElements
                        /\ PositionsOf(e, key[e]) # {}

\* An element with the override attribute has lost its key, and the list
\* of the only key of the registry holds the other element
C30_Witness ==
    /\ \E e \in Elements : key[e] = "" /\ override[e]
    /\ \E e \in Elements :
         /\ key[e] = "b"
         /\ DOMAIN registeredElements = {"b"}
         /\ registeredElements["b"] = <<e>>
    /\ registered # <<>>

\* Element a stands before element b in the list of key k of registry reg
StandsBefore(reg, k, a, b) ==
    /\ k \in DOMAIN reg
    /\ IndexOf(reg[k], a) # 0 /\ IndexOf(reg[k], b) # 0
    /\ IndexOf(reg[k], a) < IndexOf(reg[k], b)

\* A key or override attribute of element e changes in the step
AttributeChanged(e) ==
    \/ \E k \in Keys \cup {""} : SetKey(e, k)
    \/ \E b \in BOOLEAN : SetOverride(e, b)

\* C31: a change of an attribute of an element gets it ahead of another
\* registrant of its key only when it has the override attribute
\* afterwards: by gaining the attribute or by registering the key while it
\* has it, never by losing the attribute.
C31_OnlyFlaggedMovesAhead ==
    [][\A e \in Elements : \A x \in Elements \ {e} : \A k \in Keys :
         (/\ AttributeChanged(e)
          /\ key'[e] = k /\ key[x] = k
          /\ StandsBefore(registeredElements', k, e, x)
          /\ ~StandsBefore(registeredElements, k, e, x)) => override'[e]]_vars

----------------------------------------------------------------------------
(* The attributes of the slides after a route change (SpecHash) *)

\* The slides of view v (from 0) for which P holds
SlidesWith(v, P(_)) == {i \in 0..(Len(slides[v]) - 1) : P(slides[v][i + 1])}

\* The last step was a route change in view v whose hash names a slide
RouteChanged(v) ==
    /\ did.op = "hashchange" /\ did.view = v
    /\ HasSlide(slides[v], currentSlide(location[v]))

\* C32: after a route change whose hash names a slide of the deck, the
\* slide at currentSlide is the one active slide and its progress dot the
\* one active dot; only the slide at currentSlide + 1 may have next, at
\* most one slide has previous, and the active slide does not.
C32_OneActiveSlide ==
    \A v \in Views : RouteChanged(v) =>
        LET cs == currentSlide(location[v]) IN
        /\ SlidesWith(v, LAMBDA sl : sl.active) = {cs}
        /\ SlidesWith(v, LAMBDA sl : sl.dot) = {cs}
        /\ SlidesWith(v, LAMBDA sl : sl.next) =
             (IF HasSlide(slides[v], cs + 1) THEN {cs + 1} ELSE {})
        /\ Cardinality(SlidesWith(v, LAMBDA sl : sl.previous)) <= 1
        /\ cs \notin SlidesWith(v, LAMBDA sl : sl.previous)

\* The deck came back to a slide that had been the previous one
C32_Witness ==
    /\ RouteChanged(1)
    /\ currentSlide(location[1]) = 1
    /\ deck[1].oldPreviousSlide = 2
    /\ slides[1][3].previous /\ slides[1][3].next
    /\ ~slides[1][1].previous

----------------------------------------------------------------------------
(* Navigation by the buttons of a deck opened at a hash (SpecNav) *)

\* The hashes slide-n/step-m of the positions of the deck
NavHashes ==
    UNION {{SlideStepHash(n, m) : m \in 1..(SlideSteps[n] + 1)} :
             n \in 1..Len(SlideSteps)}

\* The document of view v was opened at a URL with the hash: the deck is
\* connected, and no route change has been notified yet
OpenAt(v, hash) ==
    /\ did.op = "connect"
    /\ CommitDecks([Decks EXCEPT !.location[v] = hash], "open", v, 0, hash, 0)
    /\ UNCHANGED fonts
    /\ OnlyDecks

NextNav ==
    \/ \E hash \in NavHashes : OpenAt(1, hash)
    \/ Forward(1)
    \/ Backward(1)
    \/ FontsSettle(1)
    \/ AnimationFrame(1)

SpecNav == Start(World0) /\ [][NextNav]_vars

\* The slide and the step that a hash names
Position(hash) == <<currentSlide(hash), currentStep(hash)>>

\* The hash names slide s and a step k of it with 1 <= k <= steps(s) + 1
InRange(hash) ==
    /\ HasSlide(SlideSteps, currentSlide(hash))
    /\ currentStep(hash) \in 0..SlideSteps[currentSlide(hash) + 1]

\* The hash names the last step of the last slide
AtEnd(hash) ==
    Position(hash) = <<Len(SlideSteps) - 1, SlideSteps[Len(SlideSteps)]>>

\* C33: from a position of the deck, a forward click that changes the
\* hash followed by a backward click gives the position back, and the
\* same with the two swapped; forward at the end and backward at the
\* start keep the hash; every hash that a click makes is the hash
\* slide-n/step-m of a position.
C33_ForwardBackwardInverse ==
    [][\A v \in Views :
         /\ (Forward(v) /\ InRange(location[v])) =>
               /\ location'[v] # location[v] =>
                     /\ location'[v] \in NavHashes
                     /\ Position(BackwardClick(Decks', v).location[v])
                          = Position(location[v])
               /\ AtEnd(location[v]) => location'[v] = location[v]
         /\ (Backward(v) /\ InRange(location[v])) =>
               /\ location'[v] # location[v] =>
                     /\ location'[v] \in NavHashes
                     /\ Position(ForwardClick(Decks', v).location[v])
                          = Position(location[v])
               /\ Position(location[v]) = <<0, 0>> =>
                     location'[v] = location[v]]_vars

----------------------------------------------------------------------------
(* Renders of an element that is not connected (SpecGluon) *)

\* C34: the continuation of a render() request never renders the template
\* of an element that has no shadow root yet: a request made by an
\* attribute change before connectedCallback renders nothing into a
\* missing shadow root.
C34_NoRenderBeforeConnect ==
    (hist # <<>> /\ Last.op = "resume") => (shadowRoot # NULL /\ ~threw)

----------------------------------------------------------------------------
(* Renders with a part callback that throws (SpecFail) *)

NextFail ==
    \E l \in PageLiterals : \E values \in LiteralValues(l) :
        \E partCallback \in {"default", "nodesOnly"} :
            Render(l, values, partCallback)

SpecFail == Start(World0) /\ [][NextFail]_vars

\* C35: a first render that throws, in the part callback while cloning or
\* in a setValue of the update, leaves the container as it was: its
\* children stay and it does not record the new instance, so that the next
\* render of the template with the part callback is a first render again.
C35_FailedRenderLeavesContainer ==
    (hist # <<>> /\ Last.op = "render" /\ FirstRenderCase /\ threw) =>
        /\ dom[Container].kids = old.dom[Container].kids
        /\ tinst[Container] = old.tinst[Container]

====
